---- MODULE Spec2Model ----


(***************************************************************************)
(* nanobot-rs: the agent execution engine.                                 *)
(*   MessageBus (src/src/bus.rs), SessionManager (src/src/session.rs),     *)
(*   ToolRegistry (src/src/tools/registry.rs), AgentLoop                   *)
(*   (src/src/agent/loop.rs) and SubagentManager                           *)
(*   (src/src/agent/subagent.rs).                                          *)
(* Channel names, chat ids and session keys are sequences of one-character *)
(* strings, so that format!("{a}:{b}") and split_once(':') are computed.   *)
(* Other texts are atoms, and a format!() of several parts is the tuple of *)
(* its parts.                                                              *)
(***************************************************************************)
EXTENDS Integers, Sequences, FiniteSets, TLC

VARIABLES
    inbound,        \* MessageBus: the inbound mpsc channel's buffer
    outbound,       \* MessageBus: the outbound mpsc channel's buffer
    inbound_size,   \* MessageBus.inbound_size
    outbound_size,  \* MessageBus.outbound_size
    inbound_rx,     \* owner of the Mutex around the inbound receiver, or None
    outbound_rx,    \* owner of the Mutex around the outbound receiver, or None
    running,        \* AgentLoop.running
    run,            \* the task executing AgentLoop::run
    turn,           \* per caller: the process_message call in progress
    cache,          \* SessionManager.cache: key -> Session
    disk,           \* the sessions directory: file name -> message records
    memory,         \* MemoryStore: long-term memory and the history log
    tool_ctx,       \* the context fields of MessageTool / SpawnTool / CronTool
    tasks,          \* SubagentManager: the spawned tokio tasks, by task id
    running_tasks,  \* SubagentManager.running_tasks (its key set)
    clients,        \* tasks outside the agent that use the bus
    budget,         \* what the environment may still do (inputs left)
    clock,          \* number of process_message calls started so far
    cron,           \* CronService: its store, its runner task and its callers
    pairing,        \* the pending pairing requests (pairing/pending.json)
    channel_sent        \* MockChannel.sent of the mock channels registered, by name

busVars   == <<inbound, outbound, inbound_size, outbound_size, inbound_rx, outbound_rx>>
storeVars == <<cache, disk, memory>>
subVars   == <<tasks, running_tasks>>
serviceVars == <<cron, pairing, channel_sent>>
vars == <<inbound, outbound, inbound_size, outbound_size, inbound_rx, outbound_rx,
          running, run, turn, cache, disk, memory, tool_ctx, tasks, running_tasks,
          clients, budget, clock, cron, pairing, channel_sent>>

None == "None"
\* Option<T>: Absent is Rust's None, Some(v) is Some(v)
Absent == [some |-> FALSE]
Some(v) == [some |-> TRUE, v |-> v]
\* Result<T>
Ok(v) == [ok |-> TRUE, v |-> v]
Err(e) == [ok |-> FALSE, err |-> e]

(***************************************************************************)
(* Bounds of the model.                                                    *)
(***************************************************************************)
Capacity == 2          \* MessageBus::new(capacity)
MaxIterations == 2     \* AgentLoop.max_iterations
MemoryWindow == 3      \* AgentLoop.memory_window
MaxUserMessages == 1   \* messages the channels hand to the bus
MaxDirectCalls == 2    \* process_direct calls of the command line
MaxSpawns == 1         \* subagents spawned in one run of the gateway
MaxRunMessages == 2    \* messages the channels hand to the bus before a shutdown
MaxBusMessages == 3    \* messages published per queue in the bus harness
HarnessSpawns == 1     \* spawn() calls in the subagent harness
MaxTimeouts == 2       \* consume_inbound calls a consumer abandons on its timeout
MaxCallbacks == 1      \* cron and heartbeat callbacks that fire while the gateway runs
MaxHandled == 3        \* handle_message calls a channel makes
MaxIdLen == 3          \* characters of a sender id given to is_allowed
MaxAllowFrom == 2      \* entries of an allow list given to is_allowed
MaxRecords == 3        \* records of a session given to get_history
MaxWindow == 22        \* the largest memory_window a consolidation is checked with
MaxSessionLen == 24    \* the longest session a consolidation is checked with
MaxSystemMessages == 1 \* system-channel messages published by a holder of the bus
RetryIterations == 3   \* max_iterations of the loop whose retry is checked
SpawnTurns == 1        \* process_direct calls of the command line with subagents
MaxHistory == 3        \* the largest max_messages given to get_history
MaxNow == 3            \* the last instant of the cron service's clock
MaxCronCalls == 2      \* calls of run_job, enable_job and remove_job
MaxSaved == 2          \* records of a session the callers of the store save
MaxPairingNow == 3     \* the last instant of the pairing store's clock
MaxPairingCalls == 3   \* calls of issue_pairing, approve_pairing and reject_pairing
ExpireMs == 2          \* EXPIRE_MS (24 h) in ticks of the pairing store's clock
AtTime == 1            \* at_ms of the one-shot job
EveryInterval == 2     \* every_ms of the repeating job

(***************************************************************************)
(* Program constants.                                                      *)
(***************************************************************************)
SubagentIterations == 15
KeepCountMax == 10
KeepCountMin == 2
UsizeMax == 2147483647  \* stands for usize::MAX (the largest value TLC represents)

(***************************************************************************)
(* Strings.                                                                *)
(***************************************************************************)
Colon == ":"
SystemChannel == <<"s", "y", "s", "t", "e", "m">>
CliChannel == <<"c", "l", "i">>
DirectChat == <<"d", "i", "r", "e", "c", "t">>
Telegram == <<"t", "g">>
Heartbeat == <<"h", "b">>

RECURSIVE IndexOf(_, _, _)
\* position of the first c in s at or after i, or 0
IndexOf(s, c, i) ==
    IF i > Len(s) THEN 0
    ELSE IF s[i] = c THEN i
    ELSE IndexOf(s, c, i + 1)

\* str::split_once(':'): None, or the parts before and after the first ':'
split_once(s) ==
    LET i == IndexOf(s, Colon, 1)
    IN IF i = 0 THEN Absent
       ELSE Some(<<SubSeq(s, 1, i - 1), SubSeq(s, i + 1, Len(s))>>)

\* format!("{a}:{b}")
JoinColon(a, b) == a \o <<Colon>> \o b

\* str::replace(from, to) for one-character patterns
Replace(s, from, to) == [i \in 1..Len(s) |-> IF s[i] = from THEN to ELSE s[i]]

RECURSIVE ReplaceAll(_, _, _)
ReplaceAll(s, chars, to) ==
    IF chars = <<>> THEN s
    ELSE ReplaceAll(Replace(s, Head(chars), to), Tail(chars), to)

RECURSIVE TrimStart(_)
TrimStart(s) == IF s # <<>> /\ Head(s) = " " THEN TrimStart(Tail(s)) ELSE s

RECURSIVE TrimEnd(_)
TrimEnd(s) ==
    IF s # <<>> /\ s[Len(s)] = " " THEN TrimEnd(SubSeq(s, 1, Len(s) - 1)) ELSE s

Trim(s) == TrimEnd(TrimStart(s))

\* utils::safe_filename
safe_filename(name) ==
    Trim(ReplaceAll(name, <<"<", ">", ":", "\"", "/", "\\", "|", "?", "*">>, "_"))

(***************************************************************************)
(* JSON values: [t |-> "string", v |-> text], [t |-> "integer", v |-> n],  *)
(* [t |-> "boolean", v |-> b], [t |-> "array", v |-> <<values>>],          *)
(* [t |-> "object", v |-> function from keys to values], [t |-> "null"].   *)
(* A schema is a record with the fields type, properties, required,        *)
(* minLength, maxLength, minimum, maximum, enum, items (Option values)  . *)
(***************************************************************************)
JStr(x) == [t |-> "string", v |-> x]
JInt(n) == [t |-> "integer", v |-> n]
JObj(f) == [t |-> "object", v |-> f]
\* a JSON number that is not an integer (as_i64 gives None), and null
JNum(x) == [t |-> "number", v |-> x]
JNull == [t |-> "null"]
NoParams == <<>>

BaseSchema(type) ==
    [type |-> type, properties |-> <<>>, required |-> <<>>, minLength |-> Absent,
     maxLength |-> Absent, minimum |-> Absent, maximum |-> Absent, enum |-> Absent,
     items |-> Absent]
StringSchema == BaseSchema("string")
ObjectSchema(props, req) == [BaseSchema("object") EXCEPT !.properties = props, !.required = req]

RECURSIVE Flatten(_)
Flatten(ss) == IF ss = <<>> THEN <<>> ELSE Head(ss) \o Flatten(Tail(ss))

RECURSIVE SetToSeq(_)
SetToSeq(S) ==
    IF S = {} THEN <<>>
    ELSE LET x == CHOOSE y \in S : TRUE IN <<x>> \o SetToSeq(S \ {x})

SelectReq(req, obj) == SelectSeq(req, LAMBDA k : k \notin DOMAIN obj)

\* str::len: the length in bytes of the UTF-8 encoding. A string is a
\* sequence of characters; the characters named here take two bytes.
TwoByteChars == {"U+00E9"}
Utf8Len(c) == IF c \in TwoByteChars THEN 2 ELSE 1
RECURSIVE str_len(_)
str_len(s) == IF s = <<>> THEN 0 ELSE Utf8Len(Head(s)) + str_len(Tail(s))

\* tools/base.rs validate_value: the list of error texts
RECURSIVE validate_value(_, _, _, _)
validate_value(value, schema, path, fallback_label) ==
    LET label == IF path = <<>> THEN fallback_label ELSE path
        enumErrors ==
            IF schema.enum.some /\ value \notin schema.enum.v
            THEN << <<label, " must be one of ", schema.enum.v>> >> ELSE <<>>
    IN CASE schema.type = "string" ->
              IF value.t = "string"
              THEN (IF schema.minLength.some /\ str_len(value.v) < schema.minLength.v
                    THEN << <<label, " must be at least ", schema.minLength.v, " chars">> >>
                    ELSE <<>>)
                   \o (IF schema.maxLength.some /\ str_len(value.v) > schema.maxLength.v
                       THEN << <<label, " must be at most ", schema.maxLength.v, " chars">> >>
                       ELSE <<>>)
                   \o enumErrors
              ELSE << <<label, " should be string">> >>
         [] schema.type \in {"integer", "number"} ->
              IF value.t = "integer" \/ (schema.type = "number" /\ value.t = "number")
              THEN (IF schema.minimum.some /\ value.v < schema.minimum.v
                    THEN << <<label, " must be >= ", schema.minimum.v>> >> ELSE <<>>)
                   \o (IF schema.maximum.some /\ value.v > schema.maximum.v
                       THEN << <<label, " must be <= ", schema.maximum.v>> >> ELSE <<>>)
                   \o enumErrors
              ELSE << <<label, " should be ", schema.type>> >>
         [] schema.type = "boolean" ->
              IF value.t = "boolean" THEN enumErrors
              ELSE << <<label, " should be boolean">> >>
         [] schema.type = "array" ->
              IF value.t = "array"
              THEN (IF schema.items.some
                    THEN Flatten([i \in 1..Len(value.v) |->
                             validate_value(value.v[i], schema.items.v,
                                            path \o <<"[", i - 1, "]">>, fallback_label)])
                    ELSE <<>>)
                   \o enumErrors
              ELSE << <<label, " should be array">> >>
         [] schema.type = "object" ->
              IF value.t = "object"
              THEN LET missing == SelectReq(schema.required, value.v)
                       keys == SetToSeq(DOMAIN value.v \cap DOMAIN schema.properties)
                   IN [i \in 1..Len(missing) |->
                          IF path = <<>> THEN <<"missing required ", missing[i]>>
                          ELSE <<"missing required ", path, ".", missing[i]>>]
                      \o Flatten([i \in 1..Len(keys) |->
                             validate_value(value.v[keys[i]], schema.properties[keys[i]],
                                 IF path = <<>> THEN <<keys[i]>> ELSE path \o <<".", keys[i]>>,
                                 fallback_label)])
                      \o enumErrors
              ELSE << <<label, " should be object">> >>
         [] OTHER -> enumErrors

\* Tool::validate_params
validate_params(schema, params) ==
    IF schema.type # "object" THEN << <<"schema must be object type">> >>
    ELSE validate_value(JObj(params), schema, <<>>, "parameter")

(***************************************************************************)
(* The tools and the registries.                                           *)
(***************************************************************************)
\* Tool::parameters of the tools the model's provider calls
ToolParameters(name) ==
    CASE name = "read_file" ->
            ObjectSchema([path |-> StringSchema], <<"path">>)
      [] name = "message" ->
            ObjectSchema([content |-> StringSchema, channel |-> StringSchema,
                          chat_id |-> StringSchema], <<"content">>)
      [] name = "spawn" ->
            ObjectSchema([task |-> StringSchema, label |-> StringSchema], <<"task">>)
      [] OTHER -> ObjectSchema(<<>>, <<>>)

\* the registry AgentLoop::new builds (its key set)
MainRegistry ==
    {"read_file", "write_file", "edit_file", "list_dir", "exec", "web_search",
     "web_fetch", "http_request", "message", "spawn", "cron"}

\* a subagent handed the registry of the agent that spawned it
SubagentRegistryOfParent == MainRegistry

\* the registry run_subagent builds
SubagentRegistry ==
    {"read_file", "write_file", "list_dir", "exec", "web_search", "web_fetch"}

\* a registry that looks the tool up and runs it on whatever it is given
RegistryRefusalUnvalidated(registry, name, params) ==
    IF name \notin registry THEN Some(<<"Error: Tool '", name, "' not found">>)
    ELSE Absent

\* ToolRegistry::execute up to the call of the tool's body:
\* Some(the error text it returns), or Absent when the body is to run
RegistryRefusal(registry, name, params) ==
    IF name \notin registry THEN Some(<<"Error: Tool '", name, "' not found">>)
    ELSE LET errors == validate_params(ToolParameters(name), params)
         IN IF errors # <<>>
            THEN Some(<<"Error: Invalid parameters for tool '", name, "': ">>
                      \o Flatten(errors))
            ELSE Absent

\* a registry that hands a failing tool's error on as it is
RegistryResultRaw(name, body) ==
    IF body.ok THEN body.v ELSE <<body.err>>

\* ToolRegistry::execute after the body returned: Ok(output) or Err(err)
RegistryResult(name, body) ==
    IF body.ok THEN body.v ELSE <<"Error executing ", name, ": ", body.err>>



(***************************************************************************)
(* Session and SessionManager (src/src/session.rs).                        *)
(***************************************************************************)
\* Session::new
NewSession(key) == [key |-> key, messages |-> <<>>]

\* Session::add_message_with_tools; `now` is the timestamp
add_message_with_tools(session, role, content, tools_used, now) ==
    LET message == [role |-> role, content |-> content, timestamp |-> now]
        full == IF tools_used.some /\ tools_used.v # <<>>
                THEN [tools_used |-> tools_used.v] @@ message
                ELSE message
    IN [session EXCEPT !.messages = Append(@, full)]

\* Session::add_message
add_message(session, role, content, now) ==
    add_message_with_tools(session, role, content, Absent, now)

\* Session::to_llm_message
to_llm_message(m) ==
    [role |-> IF "role" \in DOMAIN m THEN m.role ELSE "user",
     content |-> IF "content" \in DOMAIN m THEN m.content ELSE ""]

IsUserRecord(m) == "role" \in DOMAIN m /\ m.role = "user"

\* a history that keeps the oldest user records
get_history_oldest(session, max_messages) ==
    LET user_messages == SelectSeq(session.messages, IsUserRecord)
        n == Len(user_messages)
    IN [i \in 1..(IF n < max_messages THEN n ELSE max_messages) |->
           to_llm_message(user_messages[i])]

\* Session::get_history
get_history(session, max_messages) ==
    LET user_messages == SelectSeq(session.messages, IsUserRecord)
        n == Len(user_messages)
        start == IF n >= max_messages THEN n - max_messages ELSE 0
    IN [i \in 1..(n - start) |-> to_llm_message(user_messages[start + i])]

\* SessionManager::session_path (the file name in the sessions directory)
session_path(key) == safe_filename(Replace(key, ":", "_")) \o <<".jsonl">>

MetadataLine == [_type |-> "metadata"]
IsMessageLine(line) == ~("_type" \in DOMAIN line /\ line._type = "metadata")

\* what SessionManager::save writes: the metadata line, then one line per message
FileOf(session) == <<MetadataLine>> \o session.messages

\* SessionManager::load: Absent when the file cannot be read
load(files, key) ==
    IF session_path(key) \in DOMAIN files
    THEN Some([key |-> key, messages |-> SelectSeq(files[session_path(key)], IsMessageLine)])
    ELSE Absent

\* SessionManager::get_or_create: the session it returns
get_or_create(cached, files, key) ==
    IF key \in DOMAIN cached THEN cached[key]
    ELSE IF load(files, key).some THEN load(files, key).v
    ELSE NewSession(key)

\* the file of the session `key` in the sessions directory, if there is one
StoredFile(files, key) ==
    IF session_path(key) \in DOMAIN files THEN Some(files[session_path(key)]) ELSE Absent

\* a get_or_create that caches an empty session instead of the one it loaded
CacheAfterGetEmpty(cached, files, key) ==
    IF key \in DOMAIN cached THEN cached
    ELSE (key :> NewSession(key)) @@ cached

\* SessionManager::get_or_create: the cache it leaves
CacheAfterGet(cached, files, key) ==
    IF key \in DOMAIN cached THEN cached
    ELSE (key :> get_or_create(cached, files, key)) @@ cached

\* SessionManager::save, when the write succeeds: the directory and the cache
DiskAfterSave(files, session) == (session_path(session.key) :> FileOf(session)) @@ files
CacheAfterSave(cached, session) == (session.key :> session) @@ cached

(***************************************************************************)
(* ContextBuilder (src/src/agent/context.rs) and the turn's messages.      *)
(***************************************************************************)
ModelName == "model"
ImageFiles == {"photo.png"}

\* context.rs build_user_content
build_user_content(text, media) ==
    LET images == SelectSeq(media, LAMBDA p : p \in ImageFiles)
    IN IF media = <<>> \/ images = <<>> THEN text
       ELSE [i \in 1..Len(images) |-> [type |-> "image_url", url |-> images[i]]]
            \o <<[type |-> "text", text |-> text]>>

\* ContextBuilder::build_messages, called with channel and chat_id
build_messages(mem, history, current_message, channel, chat_id, media) ==
    <<[role |-> "system",
       content |-> <<"system prompt", mem.long_term, "Channel: ", channel, "Chat ID: ", chat_id>>]>>
    \o history
    \o <<[role |-> "user", content |-> build_user_content(current_message, media)]>>

\* ContextBuilder::add_tool_result
add_tool_result(messages, tool_call_id, tool_name, result) ==
    Append(messages, [role |-> "tool", tool_call_id |-> tool_call_id,
                      name |-> tool_name, content |-> result])

\* ContextBuilder::add_assistant_message
add_assistant_message(messages, content, tool_calls, reasoning_content) ==
    LET base == [role |-> "assistant", content |-> IF content.some THEN content.v ELSE ""]
        withCalls == IF tool_calls.some THEN [tool_calls |-> tool_calls.v] @@ base ELSE base
        withReasoning ==
            IF reasoning_content.some /\ reasoning_content.v # ""
            THEN [reasoning_content |-> reasoning_content.v] @@ withCalls
            ELSE withCalls
    IN Append(messages, withReasoning)

\* AgentLoop::runtime_facts_message
runtime_facts_message ==
    [role |-> "system", content |-> <<"Runtime facts (authoritative)", ModelName, MainRegistry>>]

\* AgentLoop::build_turn_messages
build_turn_messages(mem, history, current_message, channel, chat_id, media) ==
    LET messages == build_messages(mem, history, current_message, channel, chat_id, media)
    IN <<Head(messages), runtime_facts_message>> \o Tail(messages)

ReflectMessage == [role |-> "user", content |-> "Reflect on the results and decide next steps."]
DefaultNoResponse == "I've completed processing but have no response to give."
BackgroundDone == "Background task completed."

\* the dictionaries of the assistant message's tool_calls
ToolCallDict(tc) == [id |-> tc.id, type |-> "function", name |-> tc.name, arguments |-> tc.arguments]
tool_call_dicts(tool_calls) == [i \in 1..Len(tool_calls) |-> ToolCallDict(tool_calls[i])]

(***************************************************************************)
(* TurnGuard (crate::agent::turn_guard).                                   *)
(***************************************************************************)
NoToolsClaim == "I don't have access to any tools."
\* TurnGuard::should_retry_after_false_no_tools_claim: the verdicts it can give;
\* it returns true only for a text that matches its "no tools" patterns
should_retry_after_false_no_tools_claim(content, iteration) ==
    IF content.some /\ content.v = NoToolsClaim THEN BOOLEAN ELSE {FALSE}
\* TurnGuard::correction_message
correction_message == [role |-> "system", content |-> "Tools are available: call them."]
\* TurnGuard::tools_available_response
tools_available_response == "Tools are available in this runtime."

(***************************************************************************)
(* The provider: what a chat request can be answered with.                 *)
(***************************************************************************)
ToolCall(id, name, arguments) == [id |-> id, name |-> name, arguments |-> arguments]
\* an unregistered tool, a call without its required parameter, a valid call
BatchFiles ==
    << ToolCall("c1", "nope", NoParams),
       ToolCall("c2", "read_file", NoParams),
       ToolCall("c3", "read_file", [path |-> JStr("notes.txt")]) >>
BatchMessageSpawn ==
    << ToolCall("c4", "message", [content |-> JStr("working on it")]),
       ToolCall("c5", "spawn", [task |-> JStr("research")]) >>
BatchMessage == << ToolCall("c6", "message", [content |-> JStr("working on it")]) >>
ToolBatches == {BatchFiles, BatchMessageSpawn, BatchMessage}
\* calls with a parameter of the wrong type, whose required parameter is
\* there (so that the tool's body would act on them), and a valid call
BatchInvalid ==
    << ToolCall("c7", "message", [content |-> JStr("working on it"), channel |-> JInt(7)]),
       ToolCall("c8", "spawn", [task |-> JStr("research"), label |-> JInt(7)]),
       ToolCall("c9", "message", [content |-> JStr("done")]) >>
FinalContents == {Some("4"), Some(NoToolsClaim), Absent}

Response(content, tool_calls) ==
    [content |-> content, tool_calls |-> tool_calls, reasoning_content |-> Absent]
\* the LLMResponse values of Ok(response); "error" stands for Err(err)
Responses ==
    {Response(c, <<>>) : c \in FinalContents}
    \cup {Response(Absent, b) : b \in ToolBatches}
ProviderError == "provider error"
ChatResults == {Ok(r) : r \in Responses} \cup {Err(ProviderError)}
\* the results of the provider the gateway is run with
GatewayResults ==
    {Ok(Response(Absent, BatchMessageSpawn)), Ok(Response(Absent, BatchMessage)),
     Ok(Response(Some("4"), <<>>)), Err(ProviderError)}
has_tool_calls(response) == response.tool_calls # <<>>

\* results of the body of read_file
ReadFileResults == {Ok(<<"file content">>), Err("io error")}


(***************************************************************************)
(* Messages of the bus (src/src/bus.rs).                                   *)
(***************************************************************************)
NoMetadata == <<>>
\* InboundMessage::new
InboundMessage(channel, sender_id, chat_id, content) ==
    [channel |-> channel, sender_id |-> sender_id, chat_id |-> chat_id,
     content |-> content, media |-> <<>>, metadata |-> NoMetadata]
\* InboundMessage::session_key
session_key(msg) == JoinColon(msg.channel, msg.chat_id)
\* OutboundMessage::new
OutboundMessage(channel, chat_id, content) ==
    [channel |-> channel, chat_id |-> chat_id, content |-> content,
     reply_to |-> Absent, media |-> <<>>, metadata |-> NoMetadata]

(***************************************************************************)
(* AgentLoop::process_message and process_system_message                   *)
(* (src/src/agent/loop.rs), as steps of one call. turn[e] is the call made *)
(* by e: "run" is AgentLoop::run, "direct" a caller of process_direct.     *)
(*   pc: idle | consolidate (consolidate_memory awaits its chat request)   *)
(*       | chat (the loop awaits provider.chat) | tool (the loop awaits    *)
(*       tools.execute of Head(calls)) | persist | done                    *)
(*   msg, given: the arguments of the call                                 *)
(* chats, tool_resps, retries, claims, own, base, batch and log record the *)
(* call's history: chat requests sent by the loop, responses with tool     *)
(* calls, fresh-context retries, responses the guard took for a false      *)
(* no-tools claim, the index of the first message the loop itself          *)
(* appended, the session the loop started with, the tool calls of the last *)
(* response and their start/return events.                                 *)
(***************************************************************************)
Execs == {"run", "direct"}

IdleTurn ==
    [pc |-> "idle", no |-> 0, msg |-> Absent, given |-> Absent, system |-> FALSE, channel |-> <<>>,
     chat_id |-> <<>>, session |-> NewSession(<<>>), messages |-> <<>>, own |-> 1,
     iteration |-> 1, retried |-> FALSE, tools_used |-> <<>>, final |-> Absent,
     calls |-> <<>>, batch |-> <<>>, log |-> <<>>, chats |-> 0, tool_resps |-> 0,
     retries |-> 0, claims |-> 0, base |-> NewSession(<<>>), result |-> Absent,
     consolidated |-> FALSE, stored |-> Absent, warning |-> Absent]

Min(a, b) == IF a < b THEN a ELSE b
Max(a, b) == IF a > b THEN a ELSE b

\* a split at the last ':' instead of the first
SystemOriginLastColon(msg) ==
    LET at == CHOOSE k \in 0..Len(msg.chat_id) :
                  /\ (k = 0 \/ msg.chat_id[k] = ":")
                  /\ \A j \in (k + 1)..Len(msg.chat_id) : msg.chat_id[j] # ":"
    IN IF at = 0 THEN <<CliChannel, msg.chat_id>>
       ELSE <<SubSeq(msg.chat_id, 1, at - 1), SubSeq(msg.chat_id, at + 1, Len(msg.chat_id))>>

\* the (channel, chat_id) process_system_message recovers from msg.chat_id
SystemOrigin(msg) ==
    IF split_once(msg.chat_id).some THEN split_once(msg.chat_id).v
    ELSE <<CliChannel, msg.chat_id>>

\* a turn that replays every record of the session
TurnHistoryAll(session) ==
    [i \in 1..Len(session.messages) |-> to_llm_message(session.messages[i])]

\* a turn that replays the last memory_window user records of the session
TurnHistoryWindow(session) == get_history(session, MemoryWindow)

\* the history a turn replays: session.get_history(0)
TurnHistory(session) == get_history(session, 0)

\* AgentLoop.max_iterations, as the loop was configured
max_iterations == budget.max_iterations

\* a loop that runs once more than the cap
LoopHeadPastCap(t) ==
    [t EXCEPT !.pc = IF t.iteration <= max_iterations + 1 THEN "chat" ELSE "persist"]

\* the for loop's head: the next iteration's chat request, or the end of the loop
LoopHead(t) == [t EXCEPT !.pc = IF t.iteration <= max_iterations THEN "chat" ELSE "persist"]

\* the turn's messages are built and the loop is entered
EnterLoop(t, mem) ==
    LET built == build_turn_messages(mem, TurnHistory(t.session), t.msg.content,
                                     t.channel, t.chat_id,
                                     IF t.system THEN <<>> ELSE t.msg.media)
    IN LoopHead([t EXCEPT !.messages = built, !.own = Len(built) + 1,
                          !.iteration = 1, !.base = t.session])

\* a loop that takes the calls of a response last to first
ExecutionOrderReversed(tool_calls) ==
    [i \in 1..Len(tool_calls) |-> tool_calls[Len(tool_calls) + 1 - i]]

\* the order in which the loop executes the calls of one response
ExecutionOrder(tool_calls) == tool_calls

\* the loop takes up the next call: tools_used.push(name), then tools.execute(..)
StartCall(t) ==
    LET tc == Head(t.calls)
    IN [t EXCEPT !.tools_used = IF t.system THEN @ ELSE Append(@, tc.name),
                 !.log = Append(@, <<"start", tc.id>>),
                 !.pc = "tool"]

\* the response carries tool calls
OnToolCalls(t, response) ==
    StartCall([t EXCEPT
        !.messages = add_assistant_message(@, response.content,
                         Some(tool_call_dicts(response.tool_calls)),
                         response.reasoning_content),
        !.calls = ExecutionOrder(response.tool_calls),
        !.batch = response.tool_calls,
        !.log = <<>>,
        !.tool_resps = @ + 1])

\* tools.execute returned `result` for Head(t.calls)
OnToolResult(t, result) ==
    LET tc == Head(t.calls)
        t1 == [t EXCEPT !.messages = add_tool_result(@, tc.id, tc.name, result),
                        !.calls = Tail(@),
                        !.log = Append(@, <<"return", tc.id>>)]
    IN IF t1.calls # <<>> THEN StartCall(t1)
       ELSE LoopHead([t1 EXCEPT !.messages = Append(@, ReflectMessage),
                                !.iteration = @ + 1])

\* a loop that forgets it has retried already
OnNoToolCallsRetryAgain(t, response, mem, verdict) ==
    IF verdict
    THEN LET built == build_turn_messages(mem, <<>>, t.msg.content, t.channel,
                          t.chat_id, IF t.system THEN <<>> ELSE t.msg.media)
         IN [t EXCEPT !.messages = Append(built, correction_message),
                      !.own = Len(built) + 1,
                      !.retries = @ + 1,
                      !.claims = @ + 1,
                      !.batch = <<>>,
                      !.log = <<>>,
                      !.iteration = @ + 1,
                      !.pc = IF t.iteration + 1 <= max_iterations THEN "chat" ELSE "persist"]
    ELSE [t EXCEPT !.final = response.content, !.pc = "persist"]

\* a retry that appends the correction to the messages of the turn so far
OnNoToolCallsExtending(t, response, mem, verdict) ==
    IF verdict
    THEN IF ~t.retried
         THEN LoopHead([t EXCEPT !.messages = Append(@, correction_message),
                                 !.own = Len(t.messages) + 1,
                                 !.retried = TRUE,
                                 !.retries = @ + 1,
                                 !.claims = @ + 1,
                                 !.batch = <<>>,
                                 !.log = <<>>,
                                 !.iteration = @ + 1])
         ELSE [t EXCEPT !.final = Some(tools_available_response), !.claims = @ + 1,
                        !.pc = "persist"]
    ELSE [t EXCEPT !.final = response.content, !.pc = "persist"]

\* the response carries no tool call; `verdict` is the guard's answer
OnNoToolCalls(t, response, mem, verdict) ==
    IF verdict
    THEN IF ~t.retried
         THEN LET built == build_turn_messages(mem, <<>>, t.msg.content, t.channel,
                               t.chat_id, IF t.system THEN <<>> ELSE t.msg.media)
              IN LoopHead([t EXCEPT !.messages = Append(built, correction_message),
                                    !.own = Len(built) + 1,
                                    !.retried = TRUE,
                                    !.retries = @ + 1,
                                    !.claims = @ + 1,
                                    !.batch = <<>>,
                                    !.log = <<>>,
                                    !.iteration = @ + 1])
         ELSE [t EXCEPT !.final = Some(tools_available_response), !.claims = @ + 1,
                        !.pc = "persist"]
    ELSE [t EXCEPT !.final = response.content, !.pc = "persist"]

\* the verdicts of the guard the loop can get for the chat result r
Verdicts(t, r) ==
    IF r.ok /\ ~has_tool_calls(r.v)
    THEN should_retry_after_false_no_tools_claim(r.v.content, t.iteration)
    ELSE {FALSE}

\* provider.chat returned inside the loop
OnChatResult(t, r, mem, verdict) ==
    LET t1 == [t EXCEPT !.chats = @ + 1]
    IN IF ~r.ok THEN [t1 EXCEPT !.result = Some(Err(r.err)), !.pc = "done"]
       ELSE IF has_tool_calls(r.v) THEN OnToolCalls(t1, r.v)
       ELSE OnNoToolCalls(t1, r.v, mem, verdict)

\* the answer after the loop
Answer(t) ==
    IF t.final.some THEN t.final.v
    ELSE IF t.system THEN BackgroundDone ELSE DefaultNoResponse

\* a turn that persists its transcript before the answer
SessionAfterTurnWithTranscript(t) ==
    add_message_with_tools(
        [t.session EXCEPT !.messages =
            Append(@, [role |-> "user", content |-> t.msg.content, timestamp |-> t.no])
            \o SubSeq(t.messages, t.own, Len(t.messages))],
        "assistant", Answer(t), Some(t.tools_used), t.no)

\* the two records a turn appends to its session
SessionAfterTurn(t) ==
    IF t.system
    THEN add_message(
             add_message(t.session, "user",
                         <<"[System: ", t.msg.sender_id, "] ", t.msg.content>>, t.no),
             "assistant", Answer(t), t.no)
    ELSE add_message_with_tools(
             add_message(t.session, "user", t.msg.content, t.no),
             "assistant", Answer(t), Some(t.tools_used), t.no)

\* the OutboundMessage a turn returns
\* a turn that returns the answer alone
TurnOutboundBare(t) ==
    IF t.system THEN OutboundMessage(t.channel, t.chat_id, Answer(t))
    ELSE OutboundMessage(t.msg.channel, t.msg.chat_id, Answer(t))

TurnOutbound(t) ==
    IF t.system THEN OutboundMessage(t.channel, t.chat_id, Answer(t))
    ELSE [OutboundMessage(t.msg.channel, t.msg.chat_id, Answer(t))
             EXCEPT !.metadata = t.msg.metadata]

SaveError == "save error"


(***************************************************************************)
(* Memory consolidation (AgentLoop::consolidate_memory).                   *)
(***************************************************************************)
\* a keep_count without its lower and upper limit
keep_count_half(memory_window) == memory_window \div 2
\* usize::min(10, usize::max(2, self.memory_window / 2))
keep_count_for(memory_window) ==
    Min(KeepCountMax, Max(KeepCountMin, memory_window \div 2))
keep_count == keep_count_for(MemoryWindow)
HasText(m) == "content" \in DOMAIN m /\ m.content # ""
\* the conversation lines consolidate_memory collects from the old messages
ConsolidationLines(old) == SelectSeq(old, HasText)
\* session.messages[split_idx..], with split_idx = len - keep
KeepRecent(session, keep) ==
    [session EXCEPT !.messages = SubSeq(@, Len(@) - keep + 1, Len(@))]
\* the two messages consolidate_memory sends to provider.chat for the old
\* records of a session (none when no old record has text)
ConsolidationRequest(session, memory_window, mem) ==
    LET keep == keep_count_for(memory_window)
        old == SubSeq(session.messages, 1, Len(session.messages) - keep)
    IN IF Len(session.messages) <= keep \/ ConsolidationLines(old) = <<>> THEN Absent
       ELSE Some(<<[role |-> "system",
                    content |-> "You are a memory consolidation agent. Respond only with valid JSON."],
                   [role |-> "user",
                    content |-> <<"You are a memory consolidation agent. Process this conversation",
                                  mem.long_term, ConsolidationLines(old)>>]>>)

\* AgentLoop::extract_json_object
extract_json_object(content) ==
    IF content.some /\ content.v.json THEN Some(content.v) ELSE Absent
JsonAnswer ==
    [json |-> TRUE, history_entry |-> Some("summary"), memory_update |-> Some("facts")]
ConsolidationResults ==
    {Err(ProviderError), Ok(Response(Some([json |-> FALSE]), <<>>)),
     Ok(Response(Some(JsonAnswer), <<>>))}
\* which write of consolidate_memory fails, if it is reached
WriteFailures == {"none", "history", "memory", "save"}
\* the errors consolidate_memory returns besides the provider's and the save's
NonJsonError == "memory consolidation returned non-JSON content"
HistoryWriteError == "append_history failed"
MemoryWriteError == "write_long_term failed"

\* MessageTool / SpawnTool / CronTool :: set_context
SetContext(channel, chat_id) ==
    [message |-> <<channel, chat_id>>, spawn |-> <<channel, chat_id>>,
     cron |-> <<channel, chat_id>>]

(***************************************************************************)
(* The mpsc channels of the MessageBus (src/src/bus.rs).                   *)
(***************************************************************************)
\* mpsc::Sender::send: the buffer after the message is enqueued
Enqueue(queue, m) == Append(queue, m)
\* a receiver that hands out the newest message
ReceivedNewest(queue) == queue[Len(queue)]

\* mpsc::Receiver::recv: the message returned and the buffer left
Received(queue) == Head(queue)
AfterRecv(queue) == Tail(queue)

(***************************************************************************)
(* process_message, step by step.                                          *)
(***************************************************************************)
\* The call starts: routing, get_or_create and, unless consolidate_memory has
\* to run first, set_context and the turn's messages.
Begin(e, msg, given_key) ==
    LET system == msg.channel = SystemChannel
        origin == IF system THEN SystemOrigin(msg) ELSE <<msg.channel, msg.chat_id>>
        key == IF system THEN JoinColon(origin[1], origin[2])
               ELSE IF given_key.some THEN given_key.v ELSE session_key(msg)
        session == get_or_create(cache, disk, key)
        consolidates == /\ ~system
                        /\ Len(session.messages) > MemoryWindow
                        /\ Len(session.messages) > keep_count
        t0 == [IdleTurn EXCEPT !.no = clock + 1, !.msg = msg, !.given = given_key,
                               !.system = system,
                               !.channel = origin[1], !.chat_id = origin[2],
                               !.session = session,
                               !.consolidated = consolidates,
                               !.stored = StoredFile(disk, key)]
    IN /\ turn[e].pc = "idle"
       /\ clock' = clock + 1
       /\ cache' = CacheAfterGet(cache, disk, key)
       /\ turn' = [turn EXCEPT ![e] = IF consolidates THEN [t0 EXCEPT !.pc = "consolidate"]
                                       ELSE EnterLoop(t0, memory)]
       /\ tool_ctx' = IF consolidates THEN tool_ctx ELSE SetContext(origin[1], origin[2])
       /\ UNCHANGED <<disk, memory>>

\* AgentLoop::consolidate_memory on `session`, where provider.chat returns r
\* and `fail` is the write that fails if it is reached: the session it leaves
\* to the turn, the memory files, whether sessions.save has written the
\* session, and what it returns: Ok(()) or Err(err)
consolidate_memory(session, memory_window, mem, r, fail) ==
    LET keep == keep_count_for(memory_window)
    IN IF Len(session.messages) <= keep
       THEN [session |-> session, memory |-> mem, saved |-> FALSE, ok |-> TRUE,
             err |-> Absent]
       ELSE
        LET old == SubSeq(session.messages, 1, Len(session.messages) - keep)
            chats == ConsolidationLines(old) # <<>>
            parsed == IF r.ok THEN extract_json_object(r.v.content) ELSE Absent
            chatOk == chats => parsed.some
            appends == chats /\ chatOk /\ parsed.v.history_entry.some
                       /\ parsed.v.history_entry.v # ""
            histOk == chatOk /\ ~(appends /\ fail = "history")
            writes == chats /\ histOk /\ parsed.v.memory_update.some
                      /\ parsed.v.memory_update.v # mem.long_term
            memOk == histOk /\ ~(writes /\ fail = "memory")
            saved == memOk /\ fail # "save"
            mem1 == [long_term |-> IF writes /\ memOk THEN parsed.v.memory_update.v
                                   ELSE mem.long_term,
                     history |-> IF appends /\ histOk
                                 THEN Append(mem.history, parsed.v.history_entry.v)
                                 ELSE mem.history]
        IN [session |-> IF memOk THEN KeepRecent(session, keep) ELSE session,
            memory |-> mem1, saved |-> saved, ok |-> saved,
            err |-> IF saved THEN Absent
                    ELSE IF ~chatOk THEN Some(IF r.ok THEN NonJsonError ELSE r.err)
                    ELSE IF ~histOk THEN Some(HistoryWriteError)
                    ELSE IF ~memOk THEN Some(MemoryWriteError)
                    ELSE Some(SaveError)]

\* a process_message that returns the error of a failed consolidation
ConsolidateStepAborting(e) ==
    /\ turn[e].pc = "consolidate"
    /\ \E r \in ConsolidationResults, fail \in WriteFailures :
        LET t == turn[e]
            done == consolidate_memory(t.session, MemoryWindow, memory, r, fail)
            t1 == [t EXCEPT !.session = done.session, !.warning = done.err]
        IN /\ memory' = done.memory
           /\ disk' = IF done.saved THEN DiskAfterSave(disk, done.session) ELSE disk
           /\ cache' = IF done.saved THEN CacheAfterSave(cache, done.session) ELSE cache
           /\ turn' = [turn EXCEPT ![e] =
                         IF done.ok THEN EnterLoop(t1, done.memory)
                         ELSE [t1 EXCEPT !.pc = "done", !.result = Some(Err(done.err.v))]]
           /\ tool_ctx' = IF done.ok THEN SetContext(t.channel, t.chat_id) ELSE tool_ctx
    /\ UNCHANGED <<serviceVars, busVars, running, run, subVars, clients, budget, clock>>

\* consolidate_memory runs to its end and its error, if any, is printed as a
\* warning (turn[e].warning); then set_context and the turn's messages
ConsolidateStep(e) ==
    /\ turn[e].pc = "consolidate"
    /\ \E r \in ConsolidationResults, fail \in WriteFailures :
        LET t == turn[e]
            done == consolidate_memory(t.session, MemoryWindow, memory, r, fail)
        IN /\ memory' = done.memory
           /\ disk' = IF done.saved THEN DiskAfterSave(disk, done.session) ELSE disk
           /\ cache' = IF done.saved THEN CacheAfterSave(cache, done.session) ELSE cache
           /\ turn' = [turn EXCEPT ![e] =
                         EnterLoop([t EXCEPT !.session = done.session,
                                             !.warning = done.err], done.memory)]
           /\ tool_ctx' = SetContext(t.channel, t.chat_id)
    /\ UNCHANGED <<serviceVars, busVars, running, run, subVars, clients, budget, clock>>

IsSpawn(tc) == tc.name = "spawn"
SpawnCalls(r) == IF r.ok THEN Len(SelectSeq(r.v.tool_calls, IsSpawn)) ELSE 0

\* provider.chat of the loop returns
ChatStep(e) ==
    /\ turn[e].pc = "chat"
    /\ \E r \in budget.results, verdict \in BOOLEAN :
        /\ SpawnCalls(r) <= budget.spawn
        /\ verdict \in Verdicts(turn[e], r)
        /\ turn' = [turn EXCEPT ![e] = OnChatResult(@, r, memory, verdict)]
        /\ budget' = [budget EXCEPT !.spawn = @ - SpawnCalls(r)]
    /\ UNCHANGED <<serviceVars, busVars, running, run, storeVars, tool_ctx, subVars, clients, clock>>

\* params.get(key).and_then(Value::as_str)
StrParam(params, key) ==
    IF key \in DOMAIN params /\ params[key].t = "string" THEN Some(params[key].v) ELSE Absent

\* SubagentManager::spawn: the label shown for a task
display_label(task, label) ==
    IF label.some THEN label.v
    ELSE IF Len(task) > 30 THEN <<"first 30 bytes of ", task, "...">> ELSE task

NextTaskId == Cardinality(DOMAIN tasks) + 1

\* the tokio task SubagentManager::spawn starts. spawn_call is the call of
\* spawn() that started it, while that call has not yet put the task's handle
\* into running_tasks: who called and what the call is going to return
NewTask(task, label, origin_channel, origin_chat_id, spawner) ==
    [pc |-> "chat", task |-> task, label |-> display_label(task, label),
     origin_channel |-> origin_channel, origin_chat_id |-> origin_chat_id,
     iter |-> 0, result |-> Absent, published |-> 0, spawner |-> spawner,
     spawn_call |-> Absent]

\* the task whose spawn() call, made by `caller`, has not returned
PendingSpawns(caller) ==
    {id \in DOMAIN tasks : tasks[id].spawn_call.some /\ tasks[id].spawn_call.v.by = caller}

\* a spawn() that awaits the task it started before it returns
InsertHandleAfterRun(id) ==
    /\ tasks[id].pc = "done"
    /\ running_tasks' = running_tasks \cup {id}
    /\ tasks' = [tasks EXCEPT ![id] = [@ EXCEPT !.spawn_call = Absent]]

\* SubagentManager::spawn after tokio::spawn:
\* running_tasks.lock().await.insert(task_id, handle)
InsertHandle(id) ==
    /\ running_tasks' = running_tasks \cup {id}
    /\ tasks' = [tasks EXCEPT ![id] = [@ EXCEPT !.spawn_call = Absent]]

NoEffect(result) == [result |-> result, send |-> Absent, spawn |-> Absent]

\* Tool::execute of the tool a call names: its result, the OutboundMessage it
\* sends and the task it spawns; `from` is the turn's (channel, chat_id)
ToolBody(tc, from) ==
    CASE tc.name = "read_file" -> {NoEffect(r) : r \in ReadFileResults}
      [] tc.name = "message" ->
            LET content == StrParam(tc.arguments, "content")
                explicit_channel == StrParam(tc.arguments, "channel")
                explicit_chat_id == StrParam(tc.arguments, "chat_id")
                target == IF explicit_channel.some /\ explicit_chat_id.some
                          THEN <<explicit_channel.v, explicit_chat_id.v>>
                          ELSE tool_ctx.message
            IN IF ~content.some
               THEN {NoEffect(Err("missing required string field: content"))}
               ELSE IF target[1] = <<>> \/ target[2] = <<>>
               THEN {NoEffect(Ok(<<"Error: No target channel/chat specified">>))}
               ELSE {[result |-> Ok(<<"Message sent to ", target[1], ":", target[2]>>),
                      send |-> Some(OutboundMessage(target[1], target[2], content.v)),
                      spawn |-> Absent]}
      [] tc.name = "spawn" ->
            LET task == StrParam(tc.arguments, "task")
                label == StrParam(tc.arguments, "label")
            IN IF ~task.some
               THEN {NoEffect(Err("missing required string field: task"))}
               ELSE {[result |-> Ok(<<"Subagent [", display_label(task.v, label),
                                      "] started (id: ", NextTaskId, ")">>),
                      send |-> Absent,
                      spawn |-> Some(NewTask(task.v, label, tool_ctx.spawn[1],
                                             tool_ctx.spawn[2], from))]}
      [] OTHER -> {NoEffect(Ok(<<"ok">>))}

\* tools.execute(name, arguments) of the call in flight: the call returns, or,
\* for a spawn, the task is started (tokio::spawn) and a second step inserts
\* its handle and returns the acknowledgement
ToolStep(e) ==
    /\ turn[e].pc = "tool"
    /\ IF PendingSpawns(e) # {}
       THEN \E id \in PendingSpawns(e) :
               /\ InsertHandle(id)
               /\ turn' = [turn EXCEPT ![e] = OnToolResult(@, tasks[id].spawn_call.v.result)]
               /\ UNCHANGED outbound
       ELSE LET t == turn[e]
                tc == Head(t.calls)
                refusal == RegistryRefusal(MainRegistry, tc.name, tc.arguments)
            IN \E b \in IF refusal.some THEN {NoEffect(Ok(refusal.v))}
                        ELSE ToolBody(tc, <<t.channel, t.chat_id>>) :
                 LET result == IF refusal.some THEN refusal.v
                               ELSE RegistryResult(tc.name, b.result)
                 IN /\ b.send.some => Len(outbound) < Capacity
                    /\ outbound' = IF b.send.some THEN Enqueue(outbound, b.send.v)
                                   ELSE outbound
                    /\ tasks' = IF b.spawn.some
                                THEN (NextTaskId :>
                                        [b.spawn.v EXCEPT !.spawn_call =
                                            Some([by |-> e, result |-> result])]) @@ tasks
                                ELSE tasks
                    /\ turn' = IF b.spawn.some THEN turn
                               ELSE [turn EXCEPT ![e] = OnToolResult(@, result)]
                    /\ UNCHANGED running_tasks
    /\ UNCHANGED <<serviceVars, inbound, inbound_size, outbound_size, inbound_rx, outbound_rx,
                   running, run, storeVars, tool_ctx, clients, budget, clock>>

\* after the loop: the two records, sessions.save and the returned message
PersistStep(e) ==
    /\ turn[e].pc = "persist"
    /\ \E saved \in BOOLEAN :
        LET t == turn[e]
            session1 == SessionAfterTurn(t)
        IN /\ disk' = IF saved THEN DiskAfterSave(disk, session1) ELSE disk
           /\ cache' = IF saved THEN CacheAfterSave(cache, session1) ELSE cache
           /\ turn' = [turn EXCEPT ![e] =
                         [t EXCEPT !.session = session1, !.pc = "done",
                                   !.result = IF saved THEN Some(Ok(TurnOutbound(t)))
                                              ELSE Some(Err(SaveError))]]
    /\ UNCHANGED <<serviceVars, busVars, running, run, memory, tool_ctx, subVars, clients, budget, clock>>


(***************************************************************************)
(* MessageBus counters (src/src/bus.rs).                                   *)
(***************************************************************************)
\* AtomicUsize::fetch_add(1) and fetch_sub(1): the value stored (wrapping)
fetch_add(n) == IF n = UsizeMax THEN 0 ELSE n + 1
\* a consume that leaves the counter alone
fetch_sub_skipped(n) == n

fetch_sub(n) == IF n = 0 THEN UsizeMax ELSE n - 1

(***************************************************************************)
(* AgentLoop::run and AgentLoop::stop.                                     *)
(*   run.pc: start (the task has not run yet) | top (the while condition)  *)
(*     | lock (consume_inbound awaits the receiver's mutex) | recv (it     *)
(*     holds the mutex and awaits recv) | turn (process_message) | send    *)
(*     (publish_outbound awaits send) | returned                           *)
(* run.msg is the message consumed last, run.sent what run published for   *)
(* it, run.failed whether its process_message returned an error and        *)
(* run.failures the number of calls that did so far.                       *)
(***************************************************************************)
InitRun == [pc |-> "start", msg |-> Absent, response |-> Absent, sent |-> <<>>,
            failed |-> FALSE, failures |-> 0]

RunStart ==
    /\ run.pc = "start"
    /\ running' = TRUE
    /\ run' = [run EXCEPT !.pc = "top"]
    /\ UNCHANGED <<serviceVars, busVars, turn, storeVars, tool_ctx, subVars, clients, budget, clock>>

RunTop ==
    /\ run.pc = "top"
    /\ run' = [run EXCEPT !.pc = IF running THEN "lock" ELSE "returned"]
    /\ UNCHANGED <<serviceVars, busVars, running, turn, storeVars, tool_ctx, subVars, clients, budget, clock>>

RunLock ==
    /\ run.pc = "lock"
    /\ inbound_rx = None
    /\ inbound_rx' = "run"
    /\ run' = [run EXCEPT !.pc = "recv"]
    /\ UNCHANGED <<serviceVars, inbound, outbound, inbound_size, outbound_size, outbound_rx, running,
                   turn, storeVars, tool_ctx, subVars, clients, budget, clock>>

\* consume_inbound returns Some(msg) and run calls process_message(msg, None)
RunRecv ==
    /\ run.pc = "recv"
    /\ inbound # <<>>
    /\ inbound' = AfterRecv(inbound)
    /\ inbound_size' = fetch_sub(inbound_size)
    /\ inbound_rx' = None
    /\ run' = [run EXCEPT !.pc = "turn", !.msg = Some(Received(inbound)), !.sent = <<>>,
                          !.response = Absent, !.failed = FALSE]
    /\ Begin("run", Received(inbound), Absent)
    /\ UNCHANGED <<serviceVars, outbound, outbound_size, outbound_rx, running, subVars, clients, budget>>

\* the one-second timeout fires and the pending consume_inbound is dropped
RunTimeout ==
    /\ run.pc \in {"lock", "recv"}
    /\ inbound_rx' = IF run.pc = "recv" THEN None ELSE inbound_rx
    /\ run' = [run EXCEPT !.pc = "top"]
    /\ UNCHANGED <<serviceVars, inbound, outbound, inbound_size, outbound_size, outbound_rx, running,
                   turn, storeVars, tool_ctx, subVars, clients, budget, clock>>

\* an apology that leaves the message's metadata behind
RunResponseNoMetadata(msg, result) ==
    IF result.ok THEN result.v
    ELSE OutboundMessage(msg.channel, msg.chat_id,
                         <<"Sorry, I encountered an error: ", result.err>>)

\* the response run publishes for msg when process_message returned `result`
RunResponse(msg, result) ==
    IF result.ok THEN result.v
    ELSE [OutboundMessage(msg.channel, msg.chat_id,
                          <<"Sorry, I encountered an error: ", result.err>>)
             EXCEPT !.metadata = msg.metadata]

\* process_message returned; publish_outbound counts the response
RunTurnDone ==
    /\ run.pc = "turn"
    /\ turn["run"].pc = "done"
    /\ run' = [run EXCEPT !.pc = "send",
                          !.response = Some(RunResponse(run.msg.v, turn["run"].result.v)),
                          !.failed = ~turn["run"].result.v.ok,
                          !.failures = IF turn["run"].result.v.ok THEN @ ELSE @ + 1]
    /\ turn' = [turn EXCEPT !["run"] = IdleTurn]
    /\ outbound_size' = fetch_add(outbound_size)
    /\ UNCHANGED <<serviceVars, inbound, outbound, inbound_size, inbound_rx, outbound_rx, running,
                   storeVars, tool_ctx, subVars, clients, budget, clock>>

\* outbound_tx.send completes
RunSend ==
    /\ run.pc = "send"
    /\ Len(outbound) < Capacity
    /\ outbound' = Enqueue(outbound, run.response.v)
    /\ run' = [run EXCEPT !.pc = "top", !.sent = Append(@, run.response.v)]
    /\ UNCHANGED <<serviceVars, inbound, inbound_size, outbound_size, inbound_rx, outbound_rx, running,
                   turn, storeVars, tool_ctx, subVars, clients, budget, clock>>

\* AgentLoop::stop
Stop ==
    /\ budget.stop > 0
    /\ running' = FALSE
    /\ budget' = [budget EXCEPT !.stop = @ - 1]
    /\ UNCHANGED <<serviceVars, busVars, run, turn, storeVars, tool_ctx, subVars, clients, clock>>

(***************************************************************************)
(* AgentLoop::process_direct.                                              *)
(***************************************************************************)
ChatIds == {<<"4", "2">>, <<"4", ":", "2">>}
UserContents == {"What's 2+2?"}
Metadata == [message_id |-> 7]

\* the arguments of the callers: the command line (no key, or a key naming
\* another chat or a system chat), the heartbeat callback and the cron callback
DirectArgs ==
    {[session_key |-> Absent, channel |-> Absent, chat_id |-> Absent],
     [session_key |-> Some(Heartbeat), channel |-> Absent, chat_id |-> Absent],
     [session_key |-> Some(<<"c", "r", "o", "n", ":", "j">>),
      channel |-> Some(Telegram), chat_id |-> Some(<<"4", "2">>)],
     [session_key |-> Some(JoinColon(Telegram, <<"4", "2">>)),
      channel |-> Absent, chat_id |-> Absent],
     [session_key |-> Some(JoinColon(SystemChannel, JoinColon(Telegram, <<"4", "2">>))),
      channel |-> Absent, chat_id |-> Absent]}

\* the InboundMessage process_direct hands to process_message, and the key
DirectKey(a) == IF a.session_key.some THEN a.session_key.v ELSE JoinColon(CliChannel, DirectChat)
DirectMessage(content, a) ==
    LET defaults == IF split_once(DirectKey(a)).some THEN split_once(DirectKey(a)).v
                    ELSE <<CliChannel, DirectChat>>
    IN InboundMessage(IF a.channel.some THEN a.channel.v ELSE defaults[1], "user",
                      IF a.chat_id.some THEN a.chat_id.v ELSE defaults[2], content)

DirectCall ==
    /\ budget.direct > 0
    /\ \E a \in DirectArgs, content \in UserContents :
          Begin("direct", DirectMessage(content, a), Some(DirectKey(a)))
    /\ budget' = [budget EXCEPT !.direct = @ - 1]
    /\ UNCHANGED <<serviceVars, busVars, running, run, subVars, clients>>

\* the arguments of the callers inside the gateway: heartbeat and cron
CallbackArgs ==
    {a \in DirectArgs :
        a.session_key.some /\ a.session_key.v \in {Heartbeat, <<"c", "r", "o", "n", ":", "j">>}}

\* the heartbeat or the cron callback calls process_direct from its own task
CallbackCall ==
    /\ budget.direct > 0
    /\ \E a \in CallbackArgs, content \in UserContents :
          Begin("direct", DirectMessage(content, a), Some(DirectKey(a)))
    /\ budget' = [budget EXCEPT !.direct = @ - 1]
    /\ UNCHANGED <<serviceVars, busVars, running, run, subVars, clients>>

\* process_direct returns the text (or the error) to its caller
DirectReturn ==
    /\ turn["direct"].pc = "done"
    /\ turn' = [turn EXCEPT !["direct"] = IdleTurn]
    /\ UNCHANGED <<serviceVars, busVars, running, run, storeVars, tool_ctx, subVars, clients, budget, clock>>


(***************************************************************************)
(* Tasks around the agent that use the bus. clients[c] is the task c:      *)
(*   pc: idle | send (publish_* has counted and awaits send)               *)
(*       | recv (consume_* holds the receiver's mutex and awaits recv)     *)
(*   msg: the message being published, n: messages published so far,      *)
(*   got: the messages consume_* returned to it.                           *)
(* "chan" is a channel's handle_message, "disp" the ChannelManager's       *)
(* dispatcher; "pin"/"pout" publish and "cin"/"cout" consume in a test;    *)
(* "cin2" consumes inbound under a timeout, as run() does, and counts in  *)
(* n the calls it abandoned. "hm" is a channel with an allow list: call is  *)
(* the handle_message call it is in (its arguments, and n when it began),  *)
(* returned the calls that have returned, each with its result. "fn" is a *)
(* caller of one function: call holds its arguments and what it returned.  *)
(***************************************************************************)
Clients == {"chan", "disp", "pin", "pout", "cin", "cout", "cin2", "hm", "fn"}
IdleClient == [pc |-> "idle", msg |-> Absent, n |-> 0, got |-> <<>>,
               call |-> Absent, returned |-> <<>>]

\* publish_inbound / publish_outbound up to the await of send: the counter
PublishCount(c, q, m) ==
    /\ clients[c].pc = "idle"
    /\ clients' = [clients EXCEPT ![c] = [@ EXCEPT !.pc = "send", !.msg = Some(m)]]
    /\ inbound_size' = IF q = "in" THEN fetch_add(inbound_size) ELSE inbound_size
    /\ outbound_size' = IF q = "out" THEN fetch_add(outbound_size) ELSE outbound_size
    /\ UNCHANGED <<inbound, outbound, inbound_rx, outbound_rx>>

\* a send that completes on a full buffer by replacing the newest message
PublishSendOverwriting(c, q) ==
    LET queue == IF q = "in" THEN inbound ELSE outbound
        after == IF Len(queue) < Capacity THEN Enqueue(queue, clients[c].msg.v)
                 ELSE [queue EXCEPT ![Len(queue)] = clients[c].msg.v]
    IN /\ clients[c].pc = "send"
       /\ inbound' = IF q = "in" THEN after ELSE inbound
       /\ outbound' = IF q = "out" THEN after ELSE outbound
       /\ clients' = [clients EXCEPT ![c] = [@ EXCEPT !.pc = "idle", !.msg = Absent,
                                                      !.n = @ + 1]]
       /\ UNCHANGED <<inbound_size, outbound_size, inbound_rx, outbound_rx>>

\* the send of publish_* completes (it waits while the buffer is full)
PublishSend(c, q) ==
    /\ clients[c].pc = "send"
    /\ Len(IF q = "in" THEN inbound ELSE outbound) < Capacity
    /\ inbound' = IF q = "in" THEN Enqueue(inbound, clients[c].msg.v) ELSE inbound
    /\ outbound' = IF q = "out" THEN Enqueue(outbound, clients[c].msg.v) ELSE outbound
    /\ clients' = [clients EXCEPT ![c] = [@ EXCEPT !.pc = "idle", !.msg = Absent, !.n = @ + 1]]
    /\ UNCHANGED <<inbound_size, outbound_size, inbound_rx, outbound_rx>>

\* consume_*: the receiver's mutex is acquired
ConsumeLock(c, q) ==
    /\ clients[c].pc = "idle"
    /\ (IF q = "in" THEN inbound_rx ELSE outbound_rx) = None
    /\ inbound_rx' = IF q = "in" THEN c ELSE inbound_rx
    /\ outbound_rx' = IF q = "out" THEN c ELSE outbound_rx
    /\ clients' = [clients EXCEPT ![c] = [@ EXCEPT !.pc = "recv"]]
    /\ UNCHANGED <<inbound, outbound, inbound_size, outbound_size>>

\* consume_*: recv returns Some(msg); the counter is decremented
ConsumeRecv(c, q, keeps) ==
    /\ clients[c].pc = "recv"
    /\ (IF q = "in" THEN inbound ELSE outbound) # <<>>
    /\ inbound' = IF q = "in" THEN AfterRecv(inbound) ELSE inbound
    /\ outbound' = IF q = "out" THEN AfterRecv(outbound) ELSE outbound
    /\ inbound_size' = IF q = "in" THEN fetch_sub(inbound_size) ELSE inbound_size
    /\ outbound_size' = IF q = "out" THEN fetch_sub(outbound_size) ELSE outbound_size
    /\ inbound_rx' = IF q = "in" THEN None ELSE inbound_rx
    /\ outbound_rx' = IF q = "out" THEN None ELSE outbound_rx
    /\ clients' = [clients EXCEPT ![c] =
                      [@ EXCEPT !.pc = "idle",
                                !.got = IF keeps
                                        THEN Append(@, Received(IF q = "in" THEN inbound
                                                                ELSE outbound))
                                        ELSE @]]

\* a timeout that drops the pending consume_* together with the oldest message
ConsumeAbandonLosing(c, q) ==
    /\ clients[c].pc = "recv"
    /\ clients[c].n < MaxTimeouts
    /\ inbound_rx' = IF q = "in" THEN None ELSE inbound_rx
    /\ outbound_rx' = IF q = "out" THEN None ELSE outbound_rx
    /\ inbound' = IF q = "in" /\ inbound # <<>> THEN AfterRecv(inbound) ELSE inbound
    /\ outbound' = IF q = "out" /\ outbound # <<>> THEN AfterRecv(outbound) ELSE outbound
    /\ clients' = [clients EXCEPT ![c] = [@ EXCEPT !.pc = "idle", !.n = @ + 1]]
    /\ UNCHANGED <<inbound_size, outbound_size>>

\* timeout(.., consume_*) elapses while recv is pending: the call is dropped
\* and with it the guard of the receiver's mutex; nothing was received
ConsumeAbandon(c, q) ==
    /\ clients[c].pc = "recv"
    /\ clients[c].n < MaxTimeouts
    /\ inbound_rx' = IF q = "in" THEN None ELSE inbound_rx
    /\ outbound_rx' = IF q = "out" THEN None ELSE outbound_rx
    /\ clients' = [clients EXCEPT ![c] = [@ EXCEPT !.pc = "idle", !.n = @ + 1]]
    /\ UNCHANGED <<inbound, outbound, inbound_size, outbound_size>>

restVars == <<running, run, turn, cache, disk, memory, tool_ctx, tasks, running_tasks, clock,
              serviceVars>>

\* Channel::handle_message for an allowed sender: publish_inbound
ChannelPublish ==
    /\ budget.user > 0
    /\ \E chat_id \in ChatIds, content \in UserContents :
          PublishCount("chan", "in",
              [InboundMessage(Telegram, "user1", chat_id, content)
                  EXCEPT !.metadata = Metadata])
    /\ budget' = [budget EXCEPT !.user = @ - 1]
    /\ UNCHANGED restVars

ChannelSend == PublishSend("chan", "in") /\ UNCHANGED <<restVars, budget>>

\* a task that holds the bus publishes a system-channel message of its own,
\* with metadata (MessageBus::publish_inbound takes any InboundMessage)
SystemPublish ==
    /\ clients["pin"].n < MaxSystemMessages
    /\ \E chat_id \in ChatIds, content \in UserContents :
          PublishCount("pin", "in",
              [InboundMessage(SystemChannel, "job", JoinColon(Telegram, chat_id), content)
                  EXCEPT !.metadata = Metadata])
    /\ UNCHANGED <<restVars, budget>>

\* ChannelManager's dispatcher: consume_outbound, then channel.send(msg)
DispatchLock == ConsumeLock("disp", "out") /\ UNCHANGED <<restVars, budget>>
\* a dispatcher that hands the message to every registered channel
DispatchedToAll(channels, msg) == [c \in DOMAIN channels |-> Append(channels[c], msg)]

\* channels_for_dispatch.get(&msg.channel), and channel.send(&msg) if there is
\* one: what the registered mock channels have recorded afterwards
Dispatched(channels, msg) ==
    IF msg.channel \in DOMAIN channels
    THEN [channels EXCEPT ![msg.channel] = Append(@, msg)]
    ELSE channels

DispatchRecv ==
    /\ ConsumeRecv("disp", "out", FALSE)
    /\ channel_sent' = Dispatched(channel_sent, Received(outbound))
    /\ UNCHANGED <<running, run, turn, cache, disk, memory, tool_ctx, tasks, running_tasks,
                   clock, cron, pairing, budget>>

\* the channels of the dispatcher's test: two registered mock channels
Mock == <<"m", "k">>
Mock2 == <<"m", "2">>
MockChannels == {Mock, Mock2}
\* ... and the channels outbound messages are addressed to
DispatchTargets == MockChannels \cup {Telegram}

\* a holder of the bus publishes the next outbound message; its content is
\* its number
MockPublishOutbound ==
    /\ clients["pout"].n < MaxBusMessages
    /\ \E channel \in DispatchTargets :
          PublishCount("pout", "out",
              OutboundMessage(channel, <<"c", "1">>, clients["pout"].n + 1))
    /\ UNCHANGED <<restVars, budget>>

\* a test of the bus: K messages published to each queue, and consumed
TestMessage(q, i) == [queue |-> q, seq |-> i]
TestPublishInbound ==
    /\ clients["pin"].n < MaxBusMessages
    /\ PublishCount("pin", "in", TestMessage("in", clients["pin"].n + 1))
    /\ UNCHANGED <<restVars, budget>>
TestSendInbound == PublishSend("pin", "in") /\ UNCHANGED <<restVars, budget>>
TestPublishOutbound ==
    /\ clients["pout"].n < MaxBusMessages
    /\ PublishCount("pout", "out", TestMessage("out", clients["pout"].n + 1))
    /\ UNCHANGED <<restVars, budget>>
TestSendOutbound == PublishSend("pout", "out") /\ UNCHANGED <<restVars, budget>>
TestLockInbound == ConsumeLock("cin", "in") /\ UNCHANGED <<restVars, budget>>
TestRecvInbound == ConsumeRecv("cin", "in", TRUE) /\ UNCHANGED <<restVars, budget>>
TestLockInbound2 == ConsumeLock("cin2", "in") /\ UNCHANGED <<restVars, budget>>
TestRecvInbound2 == ConsumeRecv("cin2", "in", TRUE) /\ UNCHANGED <<restVars, budget>>
TestTimeoutInbound2 == ConsumeAbandon("cin2", "in") /\ UNCHANGED <<restVars, budget>>
TestLockOutbound == ConsumeLock("cout", "out") /\ UNCHANGED <<restVars, budget>>
TestRecvOutbound == ConsumeRecv("cout", "out", TRUE) /\ UNCHANGED <<restVars, budget>>

(***************************************************************************)
(* Channel (src/src/channels/base.rs) and the pairing requests             *)
(* (src/src/pairing.rs). Sender ids and allow-list entries are sequences   *)
(* of characters.                                                          *)
(***************************************************************************)
Pipe == "|"

RECURSIVE split(_, _)
\* str::split(sep) for a one-character separator
split(s, sep) ==
    LET i == IndexOf(s, sep, 1)
    IN IF i = 0 THEN <<s>>
       ELSE <<SubSeq(s, 1, i - 1)>> \o split(SubSeq(s, i + 1, Len(s)), sep)

\* allow_from.iter().any(|allowed| allowed == id)
AnyEquals(allow_from, id) == \E i \in 1..Len(allow_from) : allow_from[i] = id

\* an allow list that knows no aliases
is_allowed_sender_exact(sender_id, allow_from) ==
    allow_from = <<>> \/ AnyEquals(allow_from, sender_id)

is_allowed_sender(sender_id, allow_from) ==
    IF allow_from = <<>> THEN TRUE
    ELSE IF AnyEquals(allow_from, sender_id) THEN TRUE
    ELSE IF IndexOf(sender_id, Pipe, 1) # 0
    THEN LET parts == split(sender_id, Pipe)
         IN \E i \in 1..Len(parts) : AnyEquals(allow_from, parts[i])
    ELSE FALSE

\* the sender ids and the allow lists is_allowed is tried on
SeqsUpTo(S, n) == UNION {[1..k -> S] : k \in 0..n}
SenderStrings == SeqsUpTo({"a", "b", Pipe}, MaxIdLen)
AllowEntries == {<<>>, <<"a">>, <<"b">>, <<"a", Pipe, "b">>}
AllowLists == SeqsUpTo(AllowEntries, MaxAllowFrom)

\* Channel::is_allowed on the channel's allow_from and a sender id
IsAllowed ==
    /\ ~clients["hm"].call.some
    /\ clients' = [clients EXCEPT !["hm"].call =
                       Some([sender_id |-> budget.sender_id,
                             allow_from |-> budget.allow_from,
                             allowed |-> is_allowed_sender(budget.sender_id,
                                                           budget.allow_from)])]
    /\ UNCHANGED <<busVars, restVars, budget>>

\* what issue_pairing finds in the pending store: no request of this sender,
\* a request of this sender, or a store that cannot be read or written
StoreOutcomes == {"new", "pending", "io error"}
PairingCode == "A1B2C3"

issue_pairing(channel, sender_id, chat_id, store) ==
    IF Trim(channel) = <<>> \/ Trim(sender_id) = <<>> \/ Trim(chat_id) = <<>>
    THEN Err("channel/sender/chat cannot be empty")
    ELSE IF store = "io error" THEN Err("io error")
    ELSE Ok([code |-> PairingCode, is_new |-> store = "new"])

pairing_prompt(issue) ==
    IF issue.is_new
    THEN <<"Access requires pairing.\nCode: ", issue.code,
           "\nOwner command: nanobot-rs pairing approve <channel> ", issue.code>>
    ELSE <<"Pairing pending.\nCode: ", issue.code,
           "\nOwner command: nanobot-rs pairing approve <channel> ", issue.code>>

\* the channel "hm": its allow list, and the platform events it handles
ChannelAllowFrom == << <<"a">>, <<"b">> >>
SenderIds == {<<"a">>, <<"z", "|", "b">>, <<"z">>, <<>>}
HandledChats == {<<"4", "2">>, <<"7">>}
Medias == {<<>>, <<"photo.png">>}

\* the InboundMessage handle_message builds from its arguments
HandledMessage(call) ==
    [InboundMessage(Telegram, call.sender_id, call.chat_id, call.content)
        EXCEPT !.media = call.media, !.metadata = call.metadata]

\* a channel implementation calls handle_message: the arguments are bound
HandleMessage ==
    /\ clients["hm"].pc = "idle"
    /\ ~clients["hm"].call.some
    /\ Len(clients["hm"].returned) < MaxHandled
    /\ \E sender_id \in SenderIds, chat_id \in HandledChats, content \in UserContents,
          media \in Medias :
          clients' = [clients EXCEPT !["hm"].call =
                         Some([sender_id |-> sender_id, chat_id |-> chat_id,
                               content |-> content, media |-> media,
                               metadata |-> Metadata,
                               n |-> clients["hm"].n])]
    /\ UNCHANGED <<busVars, restVars, budget>>

\* handle_message returns: the call moves to the returned ones
HandleReturned(result) ==
    [clients EXCEPT !["hm"] = [@ EXCEPT !.call = Absent,
                                        !.returned = Append(@, [call |-> clients["hm"].call.v,
                                                                result |-> result])]]

\* a handle_message that enqueues whatever it is given
HandleBodyUnchecked ==
    /\ clients["hm"].call.some
    /\ clients["hm"].pc = "idle"
    /\ clients["hm"].n = clients["hm"].call.v.n
    /\ PublishCount("hm", "in", HandledMessage(clients["hm"].call.v))
    /\ UNCHANGED <<restVars, budget>>

\* handle_message up to the await of its publish_*
HandleBody ==
    /\ clients["hm"].call.some
    /\ clients["hm"].pc = "idle"
    /\ clients["hm"].n = clients["hm"].call.v.n
    /\ LET call == clients["hm"].call.v
       IN IF ~is_allowed_sender(call.sender_id, ChannelAllowFrom)
          THEN \E store \in StoreOutcomes :
                  LET issue == issue_pairing(Telegram, call.sender_id, call.chat_id, store)
                  IN IF issue.ok
                     THEN PublishCount("hm", "out",
                              OutboundMessage(Telegram, call.chat_id,
                                              pairing_prompt(issue.v)))
                     ELSE /\ clients' = HandleReturned(Ok("()"))
                          /\ UNCHANGED busVars
          ELSE PublishCount("hm", "in", HandledMessage(call))
    /\ UNCHANGED <<restVars, budget>>

\* the awaited publish_inbound (of an InboundMessage) or publish_outbound
\* (of an OutboundMessage) completes
HandleSendInbound ==
    /\ clients["hm"].pc = "send"
    /\ "sender_id" \in DOMAIN clients["hm"].msg.v
    /\ PublishSend("hm", "in")
    /\ UNCHANGED <<restVars, budget>>
HandleSendOutbound ==
    /\ clients["hm"].pc = "send"
    /\ "sender_id" \notin DOMAIN clients["hm"].msg.v
    /\ PublishSend("hm", "out")
    /\ UNCHANGED <<restVars, budget>>

\* ... and handle_message returns Ok(())
HandleReturn ==
    /\ clients["hm"].call.some
    /\ clients["hm"].pc = "idle"
    /\ clients["hm"].n > clients["hm"].call.v.n
    /\ clients' = HandleReturned(Ok("()"))
    /\ UNCHANGED <<busVars, restVars, budget>>

(***************************************************************************)
(* Functions called on their own: the arguments are in budget.args, the    *)
(* caller "fn" keeps them with the result.                                 *)
(***************************************************************************)
FnReturned(args, result) ==
    [clients EXCEPT !["fn"].call = Some([args |-> args, result |-> result])]

\* the schema of the sample tool of tools/base.rs, reduced to its required
\* properties
SampleSchema ==
    ObjectSchema(
        [query |-> [StringSchema EXCEPT !.minLength = Some(2)],
         count |-> [BaseSchema("integer") EXCEPT !.minimum = Some(1), !.maximum = Some(10)]],
        <<"query", "count">>)

\* the JSON objects given to it: each key is missing (choice 0) or has one of
\* the values listed for it
QueryValues ==
    <<JStr(<<>>), JStr(<<"h">>), JStr(<<"h", "i">>), JStr(<<"U+00E9">>), JInt(5), JNull>>
CountValues == <<JInt(0), JInt(1), JInt(10), JInt(11), JNum(5), JStr(<<"2">>)>>
ExtraValues == <<JStr(<<"x">>)>>
WithKey(params, key, values, choice) ==
    IF choice = 0 THEN params ELSE (key :> values[choice]) @@ params
SampleChoices ==
    (0..Len(QueryValues)) \X (0..Len(CountValues)) \X (0..Len(ExtraValues))
SampleParams(choice) ==
    WithKey(WithKey(WithKey(<<>>, "query", QueryValues, choice[1]),
                    "count", CountValues, choice[2]),
            "extra", ExtraValues, choice[3])

\* Tool::validate_params of the sample tool
ValidateCall ==
    /\ ~clients["fn"].call.some
    /\ clients' = FnReturned(SampleParams(budget.args),
                             validate_params(SampleSchema, SampleParams(budget.args)))
    /\ UNCHANGED <<busVars, restVars, budget>>

\* the sessions given to get_history: up to MaxRecords records, as
\* add_message_with_tools writes them, and max_messages
StoredRecords ==
    {[role |-> role, content |-> content, timestamp |-> 0] :
        role \in {"user", "assistant"}, content \in {"u1", "u2"}}
HistoryArgs ==
    {[session |-> [key |-> JoinColon(CliChannel, <<"t">>), messages |-> ms],
      max_messages |-> n] :
        ms \in UNION {[1..k -> StoredRecords] : k \in 0..MaxRecords}, n \in 0..MaxHistory}

\* session.get_history(max_messages)
HistoryCall ==
    /\ ~clients["fn"].call.some
    /\ clients' = FnReturned(budget.args,
                             get_history(budget.args.session, budget.args.max_messages))
    /\ UNCHANGED <<busVars, restVars, budget>>

\* the arguments add_assistant_message is called with: the messages so far,
\* content, tool_calls and reasoning_content, each absent, empty or not
AssistantArgs ==
    [messages : {<<>>, <<[role |-> "user", content |-> "hello"]>>,
                 <<[role |-> "system", content |-> "prompt"],
                   [role |-> "user", content |-> "hello"]>>},
     content : {Absent, Some(""), Some("4")},
     tool_calls : {Absent, Some(<<>>), Some(BatchMessage), Some(BatchFiles)},
     reasoning_content : {Absent, Some(""), Some("think")}]

\* context.add_assistant_message(&mut messages, content, tool_calls, reasoning_content)
AssistantCall ==
    /\ ~clients["fn"].call.some
    /\ clients' = FnReturned(budget.args,
                             add_assistant_message(budget.args.messages, budget.args.content,
                                                   budget.args.tool_calls,
                                                   budget.args.reasoning_content))
    /\ UNCHANGED <<busVars, restVars, budget>>

\* a stored session of n records, oldest first (timestamps 1..n); `blank`
\* makes their contents empty, so that consolidate_memory finds no line
SessionOf(n, blank) ==
    [key |-> <<"c", ":", "1">>,
     messages |-> [i \in 1..n |->
                    [role |-> IF i % 2 = 1 THEN "user" ELSE "assistant",
                     content |-> IF blank THEN "" ELSE "text", timestamp |-> i]]]
ConsolidateArgs ==
    [memory_window : 0..MaxWindow, records : 0..MaxSessionLen, blank : BOOLEAN]

\* process_message from get_or_create to the end of consolidate_memory, for
\* an AgentLoop whose memory_window is given: `called` tells whether
\* consolidate_memory ran
ConsolidateCall ==
    /\ ~clients["fn"].call.some
    /\ \E r \in ConsolidationResults, fail \in WriteFailures :
        LET session == SessionOf(budget.args.records, budget.args.blank)
            called == Len(session.messages) > budget.args.memory_window
            done == IF called
                    THEN consolidate_memory(session, budget.args.memory_window, memory, r, fail)
                    ELSE [session |-> session, memory |-> memory, saved |-> FALSE,
                          ok |-> TRUE, err |-> Absent]
        IN clients' = FnReturned([session |-> session, r |-> r, fail |-> fail] @@ budget.args,
                                 [called |-> called] @@ done)
    /\ UNCHANGED <<busVars, restVars, budget>>

(***************************************************************************)
(* SubagentManager (src/src/agent/subagent.rs). tasks[id] is the tokio     *)
(* task of one spawn:                                                      *)
(*   pc: chat (run_subagent awaits provider.chat; iter iterations are      *)
(*       done) | send (publish_inbound awaits send) | cleanup | done       *)
(*   published counts the InboundMessages the task has enqueued.           *)
(***************************************************************************)
NoFinalResult == "Task completed but no final response was generated."

\* a run whose error ends the task without an announcement
SubIterateSilentError(task, r) ==
    IF ~r.ok THEN [task EXCEPT !.result = Some(Err(r.err)), !.pc = "cleanup"]
    ELSE IF has_tool_calls(r.v)
    THEN LET t1 == [task EXCEPT !.iter = @ + 1]
         IN IF t1.iter < SubagentIterations THEN t1
            ELSE [t1 EXCEPT !.result = Some(Ok(NoFinalResult)), !.pc = "send"]
    ELSE [task EXCEPT !.result = Some(Ok(IF r.v.content.some THEN r.v.content.v
                                         ELSE NoFinalResult)),
                      !.pc = "send"]

\* one pass of run_subagent's loop, given the chat result (the task's own
\* message array, which only the provider sees, is not kept)
SubIterate(task, r) ==
    IF ~r.ok THEN [task EXCEPT !.result = Some(Err(r.err)), !.pc = "send"]
    ELSE IF has_tool_calls(r.v)
    THEN LET t1 == [task EXCEPT !.iter = @ + 1]
         IN IF t1.iter < SubagentIterations THEN t1
            ELSE [t1 EXCEPT !.result = Some(Ok(NoFinalResult)), !.pc = "send"]
    ELSE [task EXCEPT !.result = Some(Ok(IF r.v.content.some THEN r.v.content.v
                                         ELSE NoFinalResult)),
                      !.pc = "send"]

\* the InboundMessage a task announces its result with
Announce(task) ==
    InboundMessage(SystemChannel, "subagent",
        JoinColon(task.origin_channel, task.origin_chat_id),
        <<"[Subagent '", task.label,
          IF task.result.v.ok THEN "' completed successfully]" ELSE "' failed]",
          task.task>>
        \o (IF task.result.v.ok THEN <<task.result.v.v>> ELSE <<"Error: ", task.result.v.err>>))

\* run_subagent's `for tc in response.tool_calls { tools.execute(..) }`: what
\* the calls its registry lets through to a tool's body do (results go to the
\* task's own message array, so which result a body returns is not kept)
SubToolEffects(task, r) ==
    IF r.ok /\ has_tool_calls(r.v)
    THEN LET passed(tc) == ~RegistryRefusal(SubagentRegistry, tc.name, tc.arguments).some
             calls == SelectSeq(r.v.tool_calls, passed)
             from == <<task.origin_channel, task.origin_chat_id>>
         IN [i \in 1..Len(calls) |-> CHOOSE b \in ToolBody(calls[i], from) : TRUE]
    ELSE <<>>

\* the OutboundMessages and the tasks among those effects
SubSends(task, r) ==
    LET sent == SelectSeq(SubToolEffects(task, r), LAMBDA b : b.send.some)
    IN [i \in 1..Len(sent) |-> sent[i].send.v]
SubSpawns(task, r) ==
    LET spawned == SelectSeq(SubToolEffects(task, r), LAMBDA b : b.spawn.some)
    IN [i \in 1..Len(spawned) |-> spawned[i].spawn.v]

\* provider.chat returns in run_subagent and the tool calls of the response
\* are executed; when the run ends, publish_inbound counts
SubChatStep(id) ==
    /\ id \in DOMAIN tasks
    /\ tasks[id].pc = "chat"
    /\ \E r \in budget.results :
        LET sends == SubSends(tasks[id], r)
            spawns == SubSpawns(tasks[id], r)
            n == Cardinality(DOMAIN tasks)
        IN /\ tasks' = [k \in DOMAIN tasks \cup (n + 1..n + Len(spawns)) |->
                           IF k = id THEN SubIterate(tasks[id], r)
                           ELSE IF k \in DOMAIN tasks THEN tasks[k]
                           ELSE spawns[k - n]]
           /\ running_tasks' = running_tasks \cup (n + 1..n + Len(spawns))
           /\ outbound' = outbound \o sends
           /\ inbound_size' = IF SubIterate(tasks[id], r).pc = "send"
                              THEN fetch_add(inbound_size) ELSE inbound_size
    /\ UNCHANGED <<serviceVars, inbound, outbound_size, inbound_rx, outbound_rx, running, run,
                   turn, storeVars, tool_ctx, clients, budget, clock>>

\* the send of the task's publish_inbound completes
SubSendStep(id) ==
    /\ id \in DOMAIN tasks
    /\ tasks[id].pc = "send"
    /\ Len(inbound) < Capacity
    /\ inbound' = Enqueue(inbound, Announce(tasks[id]))
    /\ tasks' = [tasks EXCEPT ![id] = [@ EXCEPT !.pc = "cleanup", !.published = @ + 1]]
    /\ UNCHANGED <<serviceVars, outbound, inbound_size, outbound_size, inbound_rx, outbound_rx, running,
                   run, turn, storeVars, tool_ctx, running_tasks, clients, budget, clock>>

\* running_map.lock().await.remove(task_id)
SubCleanupStep(id) ==
    /\ id \in DOMAIN tasks
    /\ tasks[id].pc = "cleanup"
    /\ running_tasks' = running_tasks \ {id}
    /\ tasks' = [tasks EXCEPT ![id] = [@ EXCEPT !.pc = "done"]]
    /\ UNCHANGED <<serviceVars, busVars, running, run, turn, storeVars, tool_ctx, clients, budget, clock>>

SubagentChat == \E id \in DOMAIN tasks : SubChatStep(id)
SubagentSend == \E id \in DOMAIN tasks : SubSendStep(id)
SubagentCleanup == \E id \in DOMAIN tasks : SubCleanupStep(id)

\* SubagentManager::spawn called directly (a test of the manager)
Origins == {<<Telegram, <<"4", "2">> >>, <<CliChannel, <<"4", ":", "2">> >>}
SpawnCall ==
    /\ IF PendingSpawns("test") # {}
       THEN /\ \E id \in PendingSpawns("test") : InsertHandle(id)
            /\ UNCHANGED budget
       ELSE /\ budget.spawn > 0
            /\ \E o \in Origins :
                 tasks' = (NextTaskId :>
                            [NewTask("research", Absent, o[1], o[2], o) EXCEPT !.spawn_call =
                                Some([by |-> "test",
                                      result |-> <<"Subagent [", "research",
                                                   "] started (id: ", NextTaskId, ")">>])])
                          @@ tasks
            /\ budget' = [budget EXCEPT !.spawn = @ - 1]
            /\ UNCHANGED running_tasks
    /\ UNCHANGED <<serviceVars, busVars, running, run, turn, storeVars, tool_ctx, clients, clock>>


(***************************************************************************)
(* CronService (src/src/cron/service.rs). cron is the service:             *)
(*   jobs: store.jobs, in the order of the Vec; of a CronJob the id, the   *)
(*         enabled flag, the schedule, delete_after_run and the state are  *)
(*         kept (name, payload and the *_at_ms stamps play no part)        *)
(*   on_job: whether set_on_job has registered a callback                  *)
(*   now: what now_ms() returns                                            *)
(*   runner: the task start() spawned: pc is sleep (between two ticks) |   *)
(*         take (the for loop is at Head(due)) | invoke (job_to_run is     *)
(*         cloned, the callback not yet called) | await (the callback's    *)
(*         future is awaited); due: the ids collected, job: job_to_run     *)
(*   api: the task that calls run_job, enable_job and remove_job: pc is    *)
(*         idle | invoke | await (inside run_job); n: calls made so far;   *)
(*         last: the last call and what it returned                        *)
(*   calls: the invocations of the callback, oldest first: the job's id,   *)
(*         who invoked (loop or run_job), and whether at that moment       *)
(*         enable_job(id, false) or remove_job(id) had returned with no    *)
(*         enable_job(id, true) since (revoked)                            *)
(*   revoked: the ids for which that is the case now                       *)
(*   ran: the ids of the jobs the loop has taken up to run, oldest first   *)
(***************************************************************************)
\* compute_next_run; schedules of kind "cron" (an expression) are left out
compute_next_run(schedule, now_ms) ==
    CASE schedule.kind = "at" ->
            IF schedule.at_ms.some /\ schedule.at_ms.v > now_ms THEN schedule.at_ms
            ELSE Absent
      [] schedule.kind = "every" ->
            IF ~schedule.every_ms.some THEN Absent
            ELSE IF schedule.every_ms.v <= 0 THEN Absent
            ELSE Some(now_ms + schedule.every_ms.v)
      [] OTHER -> Absent

NoRun == [next_run_at_ms |-> Absent, last_run_at_ms |-> Absent,
          last_status |-> Absent, last_error |-> Absent]

\* the job add_job(.., schedule, .., delete_after_run) stores at `now`, as
\* recompute_next_runs leaves it
CronJob(id, schedule, delete_after_run, now) ==
    [id |-> id, enabled |-> TRUE, schedule |-> schedule,
     delete_after_run |-> delete_after_run,
     state |-> [NoRun EXCEPT !.next_run_at_ms = compute_next_run(schedule, now)]]

AtSchedule(at_ms) == [kind |-> "at", at_ms |-> Some(at_ms), every_ms |-> Absent]
EverySchedule(every_ms) == [kind |-> "every", at_ms |-> Absent, every_ms |-> Some(every_ms)]

\* jobs.iter().position(|j| j.id == id), or 0
JobIndex(jobs, id) ==
    IF \E i \in 1..Len(jobs) : jobs[i].id = id
    THEN CHOOSE i \in 1..Len(jobs) : jobs[i].id = id /\ \A k \in 1..(i - 1) : jobs[k].id # id
    ELSE 0

\* jobs.iter().find(|j| j.id == id).cloned()
FindJob(jobs, id) == IF JobIndex(jobs, id) = 0 THEN Absent ELSE Some(jobs[JobIndex(jobs, id)])

\* jobs.retain(|j| j.id != id)
RetainOthers(jobs, id) == SelectSeq(jobs, LAMBDA j : j.id # id)

\* the ids the loop collects at `now`
DueJobs(jobs, now) ==
    LET due == SelectSeq(jobs, LAMBDA job : /\ job.enabled
                                            /\ job.state.next_run_at_ms.some
                                            /\ now >= job.state.next_run_at_ms.v)
    IN [i \in 1..Len(due) |-> due[i].id]

CallbackError == "callback failed"
\* what the callback's future can resolve to; Ok(None) when none is registered
CallbackOutcomes(on_job) == IF on_job THEN {Ok("ok"), Err(CallbackError)} ELSE {Ok(None)}

\* last_status and last_error after a run
WithStatus(target, result) ==
    IF result.ok
    THEN [target EXCEPT !.state.last_status = Some("ok"), !.state.last_error = Absent]
    ELSE [target EXCEPT !.state.last_status = Some("error"), !.state.last_error = Some(result.err)]

\* a loop that schedules a one-shot job like any other job after its run
LoopAfterRunRescheduling(jobs, job, result, now) ==
    LET i == JobIndex(jobs, job.id)
    IN IF i = 0 THEN jobs
       ELSE [jobs EXCEPT ![i] =
                [WithStatus(@, result) EXCEPT !.state.next_run_at_ms =
                    IF job.schedule.kind = "at" THEN job.schedule.at_ms
                    ELSE compute_next_run(jobs[i].schedule, now)]]

\* the loop after the callback of `job` (its clone) resolved to `result`:
\* the store it leaves
LoopAfterRun(jobs, job, result, now) ==
    LET i == JobIndex(jobs, job.id)
    IN IF i = 0 THEN jobs
       ELSE IF job.schedule.kind = "at"
       THEN IF job.delete_after_run THEN RetainOthers(jobs, jobs[i].id)
            ELSE [jobs EXCEPT ![i] = [WithStatus(@, result) EXCEPT
                                         !.enabled = FALSE,
                                         !.state.next_run_at_ms = Absent]]
       ELSE [jobs EXCEPT ![i] = [WithStatus(@, result) EXCEPT
                                    !.state.next_run_at_ms =
                                        compute_next_run(jobs[i].schedule, now)]]

\* run_job after the callback resolved to `result`: the store it leaves
RunJobAfterRun(jobs, job_id, result, now) ==
    LET i == JobIndex(jobs, job_id)
    IN IF i = 0 THEN jobs
       ELSE LET target == [WithStatus(jobs[i], result) EXCEPT
                              !.state.last_run_at_ms = Some(now),
                              !.state.next_run_at_ms = compute_next_run(jobs[i].schedule, now)]
            IN IF target.schedule.kind = "at" /\ target.delete_after_run
               THEN RetainOthers(jobs, target.id)
               ELSE [jobs EXCEPT ![i] = target]

\* a run_job that stops only at an unknown id
run_job_stops_unknown(job_opt, force) == ~job_opt.some

\* run_job returns Ok(false) before it calls anything
run_job_stops(job_opt, force) == ~job_opt.some \/ (~force /\ ~job_opt.v.enabled)

IdleRunner == [pc |-> "sleep", due |-> <<>>, job |-> Absent]
IdleApi == [pc |-> "idle", n |-> 0, id |-> "", force |-> FALSE, job |-> Absent, last |-> Absent]
\* CronService::new: nothing loaded, nothing started
NewCron ==
    [started |-> FALSE, jobs |-> <<>>, on_job |-> FALSE, now |-> 0, runner |-> IdleRunner,
     api |-> IdleApi, calls |-> <<>>, revoked |-> {}, ran |-> <<>>]

(***************************************************************************)
(* The pending pairing requests (src/src/pairing.rs). pairing is the file  *)
(* pairing/pending.json with the allow lists of the configuration:         *)
(*   pending: the PendingPairing entries, allow_from: channel -> sender    *)
(*   ids, now: now_ms(), n: calls made, last: the caller's last call with  *)
(*   the entries that were pending when it was made.                       *)
(***************************************************************************)
U32Max == 2147483647  \* stands for u32::MAX (the largest value TLC represents)

\* u32::saturating_add(1)
saturating_add(n) == IF n = U32Max THEN U32Max ELSE n + 1

to_ascii_uppercase(s) ==
    [i \in 1..Len(s) |-> IF s[i] = "a" THEN "A" ELSE IF s[i] = "d" THEN "D" ELSE s[i]]
eq_ignore_ascii_case(a, b) == to_ascii_uppercase(a) = to_ascii_uppercase(b)

\* cleanup_expired: the entries seen within EXPIRE_MS
cleanup_expired(pending, now) ==
    SelectSeq(pending, LAMBDA entry : entry.last_seen_at_ms >= now - ExpireMs)

\* position of the first entry satisfying Test, 0 if there is none
FirstIndex(pending, Test(_)) ==
    IF \E i \in 1..Len(pending) : Test(pending[i])
    THEN CHOOSE i \in 1..Len(pending) :
            /\ Test(pending[i])
            /\ \A j \in 1..(i - 1) : ~Test(pending[j])
    ELSE 0

\* the entry issue_pairing finds for the sender
FindPending(pending, channel, sender_id) ==
    FirstIndex(pending, LAMBDA p : p.channel = channel /\ p.sender_id = sender_id)

\* the entry approve_pairing finds for the code
FindCode(pending, channel, code) ==
    FirstIndex(pending, LAMBDA p : p.channel = channel /\ eq_ignore_ascii_case(p.code, code))

Remove(s, idx) == SubSeq(s, 1, idx - 1) \o SubSeq(s, idx + 1, Len(s))

PendingPairing(channel, sender_id, chat_id, code, now) ==
    [channel |-> channel, sender_id |-> sender_id, chat_id |-> chat_id, code |-> code,
     created_at_ms |-> now, last_seen_at_ms |-> now, request_count |-> 1]

\* an issue_pairing that pushes a new entry for every request
PendingAfterIssuePushing(pending, channel, sender_id, chat_id, code, now) ==
    Append(cleanup_expired(pending, now),
           PendingPairing(channel, sender_id, chat_id, code, now))

\* issue_pairing: the store it saves; code is the new_code() it would use
PendingAfterIssue(pending, channel, sender_id, chat_id, code, now) ==
    LET live == cleanup_expired(pending, now)
        idx == FindPending(live, channel, sender_id)
    IN IF idx # 0
       THEN [live EXCEPT ![idx] =
                [@ EXCEPT !.last_seen_at_ms = now,
                          !.request_count = saturating_add(@)]]
       ELSE Append(live, PendingPairing(channel, sender_id, chat_id, code, now))

\* issue_pairing: the PairingIssue it returns
PairingIssue(pending, channel, sender_id, code, now) ==
    LET live == cleanup_expired(pending, now)
        idx == FindPending(live, channel, sender_id)
    IN IF idx # 0 THEN [code |-> live[idx].code, is_new |-> FALSE]
       ELSE [code |-> code, is_new |-> TRUE]

\* channel_allowlist_mut: the channels that have an allow list
HasAllowlist(channel) == channel = Telegram

PairingChannels == {Telegram, CliChannel}
PairingSenders == {<<"u", "1">>, <<"u", "2">>, <<" ">>}
PairingChats == {<<"4", "2">>}
NewCodes == {<<"A", "1", "B", "2", "C", "3">>, <<"D", "4", "E", "5", "F", "6">>}
CodeInputs == NewCodes \cup {<<"a", "1", "B", "2", "C", "3">>}

\* a pending.json left by an earlier run: one sender who kept asking
OldPending ==
    <<[PendingPairing(Telegram, <<"u", "1">>, <<"4", "2">>,
                      <<"A", "1", "B", "2", "C", "3">>, 0)
        EXCEPT !.request_count = U32Max - 1]>>

NewPairing(pending) ==
    [pending |-> pending, allow_from |-> [c \in PairingChannels |-> <<>>], now |-> 0,
     n |-> 0, last |-> Absent]

NoPairing == NewPairing(<<>>)

pairingRest == <<busVars, running, run, turn, storeVars, tool_ctx, subVars, clients, budget,
                 clock, cron, channel_sent>>

PairingReturns(op, args, result) ==
    [pairing EXCEPT !.n = @ + 1,
                    !.last = Some([op |-> op, args |-> args, result |-> result,
                                   before |-> cleanup_expired(pairing.pending, pairing.now)])]

\* time passes
PairingClock ==
    /\ pairing.now < MaxPairingNow
    /\ pairing' = [pairing EXCEPT !.now = @ + 1]
    /\ UNCHANGED pairingRest

\* issue_pairing(channel, sender_id, chat_id); the store may fail to be written
IssuePairing ==
    /\ pairing.n < MaxPairingCalls
    /\ \E channel \in PairingChannels, sender_id \in PairingSenders, chat_id \in PairingChats,
          code \in NewCodes, saved \in BOOLEAN :
          LET args == [channel |-> channel, sender_id |-> sender_id, chat_id |-> chat_id]
          IN pairing' =
               IF Trim(sender_id) = <<>>
               THEN PairingReturns("issue", args, Err("channel/sender/chat cannot be empty"))
               ELSE IF ~saved THEN PairingReturns("issue", args, Err("io error"))
               ELSE [PairingReturns("issue", args,
                                    Ok(PairingIssue(pairing.pending, channel, sender_id, code,
                                                    pairing.now)))
                       EXCEPT !.pending = PendingAfterIssue(pairing.pending, channel,
                                                            sender_id, chat_id, code,
                                                            pairing.now)]
    /\ UNCHANGED pairingRest

\* approve_pairing(channel, code)
ApprovePairing ==
    /\ pairing.n < MaxPairingCalls
    /\ \E channel \in PairingChannels, code \in CodeInputs :
          LET args == [channel |-> channel, code |-> code]
              live == cleanup_expired(pairing.pending, pairing.now)
              idx == FindCode(live, channel, code)
          IN pairing' =
               IF idx = 0 THEN PairingReturns("approve", args, Err("pending pairing not found"))
               ELSE IF ~HasAllowlist(channel)
               THEN PairingReturns("approve", args,
                                   Err("channel does not support allowlist pairing"))
               ELSE [PairingReturns("approve", args, Ok(live[idx]))
                       EXCEPT !.pending = Remove(live, idx),
                              !.allow_from[channel] =
                                  IF AnyEquals(@, live[idx].sender_id) THEN @
                                  ELSE Append(@, live[idx].sender_id)]
    /\ UNCHANGED pairingRest

\* reject_pairing(channel, code)
RejectPairing ==
    /\ pairing.n < MaxPairingCalls
    /\ \E channel \in PairingChannels, code \in CodeInputs :
          LET args == [channel |-> channel, code |-> code]
              live == cleanup_expired(pairing.pending, pairing.now)
              kept == SelectSeq(live, LAMBDA p : ~(p.channel = channel
                                                   /\ eq_ignore_ascii_case(p.code, code)))
              changed == Len(kept) # Len(live)
          IN pairing' = [PairingReturns("reject", args, Ok(changed))
                           EXCEPT !.pending = IF changed THEN kept ELSE @]
    /\ UNCHANGED pairingRest


cronRest == <<busVars, running, run, turn, storeVars, tool_ctx, subVars, clients, budget, clock,
              pairing, channel_sent>>

\* time passes
CronClock ==
    /\ cron.started /\ cron.now < MaxNow
    /\ cron' = [cron EXCEPT !.now = @ + 1]
    /\ UNCHANGED cronRest

\* the loop wakes up and collects the due jobs (a tick with none only saves
\* the store and sleeps again)
CronCollect ==
    /\ cron.started /\ cron.runner.pc = "sleep"
    /\ DueJobs(cron.jobs, cron.now) # <<>>
    /\ cron' = [cron EXCEPT !.runner = [@ EXCEPT !.pc = "take",
                                                 !.due = DueJobs(cron.jobs, cron.now)]]
    /\ UNCHANGED cronRest

\* the runner is done with Head(due)
NextDue(runner) ==
    [runner EXCEPT !.due = Tail(@), !.job = Absent,
                   !.pc = IF Tail(runner.due) = <<>> THEN "sleep" ELSE "take"]

\* for id in due_jobs: the job is looked up, cloned and stamped
CronTake ==
    /\ cron.runner.pc = "take"
    /\ LET id == Head(cron.runner.due)
           i == JobIndex(cron.jobs, id)
       IN cron' = IF i = 0 THEN [cron EXCEPT !.runner = NextDue(@)]
                  ELSE [cron EXCEPT !.runner = [@ EXCEPT !.pc = "invoke",
                                                         !.job = Some(cron.jobs[i])],
                                    !.jobs[i].state.last_run_at_ms = Some(cron.now),
                                    !.ran = Append(@, id)]
    /\ UNCHANGED cronRest

\* the callback is cloned out of on_job and called with the job
Invocation(id, by) == [id |-> id, by |-> by, revoked |-> id \in cron.revoked]
Invoked(by, id) == IF cron.on_job THEN Append(cron.calls, Invocation(id, by)) ELSE cron.calls

CronInvoke ==
    /\ cron.runner.pc = "invoke"
    /\ cron' = [cron EXCEPT !.runner.pc = "await",
                            !.calls = Invoked("loop", cron.runner.job.v.id)]
    /\ UNCHANGED cronRest

\* the callback's future resolves and the loop updates the store
CronFinish ==
    /\ cron.runner.pc = "await"
    /\ \E result \in CallbackOutcomes(cron.on_job) :
          cron' = [cron EXCEPT !.jobs = LoopAfterRun(@, cron.runner.job.v, result, cron.now),
                               !.runner = NextDue(@)]
    /\ UNCHANGED cronRest

CronIds == {"a", "e", "x"}

ApiReturns(api, op, id, flag, result) ==
    [api EXCEPT !.pc = "idle", !.n = @ + 1, !.job = Absent,
                !.last = Some([op |-> op, id |-> id, flag |-> flag, result |-> result])]

\* CronService::enable_job(job_id, enabled)
EnableJob ==
    /\ cron.started /\ cron.api.pc = "idle" /\ cron.api.n < MaxCronCalls
    /\ \E job_id \in CronIds, enabled \in BOOLEAN :
          LET i == JobIndex(cron.jobs, job_id)
              job == [cron.jobs[i] EXCEPT
                         !.enabled = enabled,
                         !.state.next_run_at_ms =
                             IF enabled THEN compute_next_run(cron.jobs[i].schedule, cron.now)
                             ELSE Absent]
          IN cron' = IF i = 0
                     THEN [cron EXCEPT !.api = ApiReturns(@, "enable_job", job_id, enabled,
                                                          Absent)]
                     ELSE [cron EXCEPT !.jobs[i] = job,
                                       !.revoked = IF enabled THEN @ \ {job_id}
                                                   ELSE @ \cup {job_id},
                                       !.api = ApiReturns(@, "enable_job", job_id, enabled,
                                                          Some(job))]
    /\ UNCHANGED cronRest

\* CronService::remove_job(job_id)
RemoveJob ==
    /\ cron.started /\ cron.api.pc = "idle" /\ cron.api.n < MaxCronCalls
    /\ \E job_id \in CronIds :
          LET removed == Len(RetainOthers(cron.jobs, job_id)) < Len(cron.jobs)
          IN cron' = [cron EXCEPT !.jobs = RetainOthers(@, job_id),
                                  !.revoked = IF removed THEN @ \cup {job_id} ELSE @,
                                  !.api = ApiReturns(@, "remove_job", job_id, FALSE, removed)]
    /\ UNCHANGED cronRest

\* CronService::run_job(job_id, force) up to the callback: Ok(false), or the
\* job is cloned
RunJobBegin ==
    /\ cron.started /\ cron.api.pc = "idle" /\ cron.api.n < MaxCronCalls
    /\ \E job_id \in CronIds, force \in BOOLEAN :
          LET job_opt == FindJob(cron.jobs, job_id)
          IN cron' = IF run_job_stops(job_opt, force)
                     THEN [cron EXCEPT !.api = ApiReturns(@, "run_job", job_id, force, FALSE)]
                     ELSE [cron EXCEPT !.api = [@ EXCEPT !.pc = "invoke", !.id = job_id,
                                                         !.force = force, !.job = job_opt]]
    /\ UNCHANGED cronRest

RunJobInvoke ==
    /\ cron.api.pc = "invoke"
    /\ cron' = [cron EXCEPT !.api.pc = "await", !.calls = Invoked("run_job", cron.api.id)]
    /\ UNCHANGED cronRest

\* the callback's future resolves; run_job updates the store, saves it and
\* returns Ok(true)
RunJobFinish ==
    /\ cron.api.pc = "await"
    /\ \E result \in CallbackOutcomes(cron.on_job) :
          cron' = [cron EXCEPT !.jobs = RunJobAfterRun(@, cron.api.id, result, cron.now),
                               !.api = [ApiReturns(@, "run_job", cron.api.id, cron.api.force,
                                                   TRUE) EXCEPT !.id = "", !.force = FALSE]]
    /\ UNCHANGED cronRest

(***************************************************************************)
(* SessionManager called on its own (src/src/session.rs): the callers      *)
(* take a session, add a record and save it, delete a session, or get one. *)
(* The caller "fn" keeps its last call with what load returned for every   *)
(* key just before the call.                                               *)
(***************************************************************************)
SessionKeys == {<<"a", ":", "b">>, <<"a", "_", "b">>, <<"c", ":", "d">>}

\* what SessionManager::load returns for each key
LoadAll(files) == [key \in SessionKeys |-> load(files, key)]

\* SessionManager::delete: the cache and the directory it leaves
CacheAfterDelete(cached, key) == [k \in DOMAIN cached \ {key} |-> cached[k]]
DiskAfterDelete(files, key) ==
    [path \in DOMAIN files \ {session_path(key)} |-> files[path]]

sessionRest == <<busVars, running, run, turn, memory, tool_ctx, subVars, budget, clock,
                 serviceVars>>

\* get_or_create(key), add_message and save, as a turn does
SessionSave ==
    \E key \in SessionKeys :
        LET session == get_or_create(cache, disk, key)
            session1 == add_message(session, "user", "hello", Len(session.messages) + 1)
        IN /\ Len(session.messages) < MaxSaved
           /\ disk' = DiskAfterSave(disk, session1)
           /\ cache' = CacheAfterSave(CacheAfterGet(cache, disk, key), session1)
           /\ clients' = FnReturned([op |-> "save", key |-> key, before |-> LoadAll(disk)],
                                    Ok(session1))
           /\ UNCHANGED sessionRest

SessionDelete ==
    \E key \in SessionKeys :
        /\ disk' = DiskAfterDelete(disk, key)
        /\ cache' = CacheAfterDelete(cache, key)
        /\ clients' = FnReturned([op |-> "delete", key |-> key, before |-> LoadAll(disk)],
                                 session_path(key) \in DOMAIN disk)
        /\ UNCHANGED sessionRest

SessionGet ==
    \E key \in SessionKeys :
        /\ cache' = CacheAfterGet(cache, disk, key)
        /\ clients' = FnReturned([op |-> "get_or_create", key |-> key,
                                  before |-> LoadAll(disk)],
                                 get_or_create(cache, disk, key))
        /\ UNCHANGED <<disk, sessionRest>>


(***************************************************************************)
(* Initial states and specifications.                                      *)
(***************************************************************************)
\* a session file left by an earlier run of the program, for telegram chat 42
OldRecords ==
    <<[role |-> "user", content |-> "hello", timestamp |-> 0],
      [role |-> "assistant", content |-> "hi", timestamp |-> 0],
      [role |-> "user", content |-> "list files", timestamp |-> 0],
      [role |-> "assistant", content |-> "done", timestamp |-> 0,
       tools_used |-> <<"list_dir">>]>>
OldDisk ==
    session_path(JoinColon(Telegram, <<"4", "2">>)) :> (<<MetadataLine>> \o OldRecords)

InitBudget(user, direct, spawn, stop, results) ==
    [user |-> user, direct |-> direct, spawn |-> spawn, stop |-> stop, results |-> results,
     max_iterations |-> MaxIterations]

InitAgent ==
    /\ inbound = <<>> /\ outbound = <<>>
    /\ inbound_size = 0 /\ outbound_size = 0
    /\ inbound_rx = None /\ outbound_rx = None
    /\ running = FALSE
    /\ run = InitRun
    /\ turn = [e \in Execs |-> IdleTurn]
    /\ cache = <<>>
    /\ disk = OldDisk
    /\ memory = [long_term |-> "", history |-> <<>>]
    /\ tool_ctx = [message |-> << <<>>, <<>> >>, spawn |-> <<CliChannel, DirectChat>>,
                   cron |-> << <<>>, <<>> >>]
    /\ tasks = <<>>
    /\ running_tasks = {}
    /\ clients = [c \in Clients |-> IdleClient]
    /\ clock = 0

\* ... with no cron service started, no pairing request pending and no mock
\* channel registered
InitCommon ==
    /\ InitAgent
    /\ cron = NewCron
    /\ pairing = NoPairing
    /\ channel_sent = <<>>

\* The gateway while it is up: a channel publishes, run() serves the inbound
\* queue, the dispatcher drains the outbound queue, subagents run beside them.
Init == InitCommon /\ budget = InitBudget(MaxUserMessages, 0, MaxSpawns, 0, GatewayResults)

RunTurn ==
    \/ ConsolidateStep("run")
    \/ ChatStep("run")
    \/ ToolStep("run")
    \/ PersistStep("run")

Serve ==
    \/ ChannelPublish \/ ChannelSend
    \/ DispatchLock \/ DispatchRecv
    \/ RunStart \/ RunTop \/ RunLock \/ RunRecv \/ RunTimeout \/ RunTurnDone \/ RunSend
    \/ RunTurn

Next == Serve \/ SubagentChat \/ SubagentSend \/ SubagentCleanup

Spec == Init /\ [][Next]_vars

\* The gateway from start to shutdown: stop() is called once at some moment;
\* the provider spawns no subagent.
InitStop == InitCommon /\ budget = InitBudget(MaxRunMessages, 0, 0, 1, GatewayResults)

NextRun == Serve \/ Stop

SpecRun == InitStop /\ [][NextRun]_vars

\* A short life of the gateway: few messages, one stop(), and every task
\* scheduled again and again: the run() task, the turn it awaits, the
\* channel's publish and the dispatcher each take their next step when they
\* can. A pending consume_inbound ends after a second at the latest (the
\* timeout), which is all the fairness the receive needs.
ShutdownResults == {Ok(Response(Absent, BatchMessage)), Ok(Response(Some("4"), <<>>))}

InitShutdown == InitCommon /\ budget = InitBudget(MaxUserMessages, 0, 0, 1, ShutdownResults)

SpecShutdown == InitShutdown /\ [][NextRun]_vars

FairSpecRun ==
    /\ SpecShutdown
    /\ WF_vars(RunStart) /\ WF_vars(RunTop) /\ WF_vars(RunLock)
    /\ WF_vars(RunTimeout) /\ WF_vars(RunTurnDone) /\ WF_vars(RunSend)
    /\ WF_vars(RunTurn)
    /\ WF_vars(ChannelSend) /\ WF_vars(DispatchLock) /\ WF_vars(DispatchRecv)

\* The command line (cmd_agent): process_direct is called again and again;
\* there is no run() and no dispatcher, and the provider spawns no subagent.
InitDirect == InitCommon /\ budget = InitBudget(0, MaxDirectCalls, 0, 0, ChatResults)

DirectTurn ==
    \/ ConsolidateStep("direct")
    \/ ChatStep("direct")
    \/ ToolStep("direct")
    \/ PersistStep("direct")

NextDirect == DirectCall \/ DirectReturn \/ DirectTurn

SpecDirect == InitDirect /\ [][NextDirect]_vars


\* process_direct with a provider whose tool calls are refused by the registry
\* or not: invalid parameters, an unregistered tool, valid calls.
ToolsResults ==
    {Ok(Response(Absent, BatchInvalid)), Ok(Response(Absent, BatchFiles)),
     Ok(Response(Some("4"), <<>>))}
InitTools == InitCommon /\ budget = InitBudget(0, MaxDirectCalls, MaxSpawns, 0, ToolsResults)

SpecTools == InitTools /\ [][NextDirect]_vars

\* A test of the bus alone: one task publishes MaxBusMessages messages to each
\* queue, one task consumes each queue.
InitBus == InitCommon /\ budget = InitBudget(0, 0, 0, 0, {})

NextBus ==
    \/ TestPublishInbound \/ TestSendInbound
    \/ TestPublishOutbound \/ TestSendOutbound
    \/ TestLockInbound \/ TestRecvInbound
    \/ TestLockOutbound \/ TestRecvOutbound

SpecBus == InitBus /\ [][NextBus]_vars

\* The gateway with its callbacks: while run() serves the inbound queue, the
\* cron service and the heartbeat service call process_direct from their tasks.
CallbackResults ==
    {Ok(Response(Absent, BatchMessageSpawn)), Ok(Response(Some("4"), <<>>)),
     Err(ProviderError)}

InitCallbacks ==
    InitCommon /\ budget = InitBudget(MaxUserMessages, MaxCallbacks, MaxSpawns, 0,
                                      CallbackResults)

NextCallbacks == Serve \/ CallbackCall \/ DirectTurn \/ DirectReturn

SpecCallbacks == InitCallbacks /\ [][NextCallbacks]_vars

\* The inbound queue with one publisher and two tasks calling consume_inbound
\* concurrently, one of them under a timeout.
NextConsumers ==
    \/ TestPublishInbound \/ TestSendInbound
    \/ TestLockInbound \/ TestRecvInbound
    \/ TestLockInbound2 \/ TestRecvInbound2 \/ TestTimeoutInbound2

SpecConsumers == InitBus /\ [][NextConsumers]_vars

\* A channel with an allow list handles platform events while the agent side
\* consumes the inbound queue and the dispatcher side the outbound queue.
NextChannel ==
    \/ HandleMessage \/ HandleBody
    \/ HandleSendInbound \/ HandleSendOutbound \/ HandleReturn
    \/ TestLockInbound \/ TestRecvInbound
    \/ TestLockOutbound \/ TestRecvOutbound

SpecChannel == InitBus /\ [][NextChannel]_vars

\* is_allowed on every sender id and allow list of the bounded sets
InitAllowed ==
    /\ InitCommon
    /\ \E sender_id \in SenderStrings, allow_from \in AllowLists :
          budget = [user |-> 0, direct |-> 0, spawn |-> 0, stop |-> 0, results |-> {},
                    sender_id |-> sender_id, allow_from |-> allow_from]

SpecAllowed == InitAllowed /\ [][IsAllowed]_vars

\* a function called once on each argument of a bounded set
InitArgs(argss) ==
    /\ InitCommon
    /\ \E args \in argss :
          budget = [user |-> 0, direct |-> 0, spawn |-> 0, stop |-> 0, results |-> {},
                    args |-> args]

\* validate_params of the sample tool on every object of SampleParams
SpecValidate == InitArgs(SampleChoices) /\ [][ValidateCall]_vars

\* get_history on every session and max_messages of HistoryArgs
SpecHistory == InitArgs(HistoryArgs) /\ [][HistoryCall]_vars

\* The gateway serving messages of a channel and system-channel messages that
\* carry metadata; the provider answers with a text, with nothing or with
\* tool calls.
ReplyResults ==
    {Ok(Response(Some("4"), <<>>)), Ok(Response(Absent, <<>>)),
     Ok(Response(Absent, BatchFiles))}
InitReplies == InitCommon /\ budget = InitBudget(MaxUserMessages, 0, 0, 0, ReplyResults)

NextReplies == Serve \/ SystemPublish \/ TestSendInbound

SpecReplies == InitReplies /\ [][NextReplies]_vars

\* The command line with a loop of RetryIterations iterations and a provider
\* that asks for tools, denies having tools, or answers.
RetryResults ==
    {Ok(Response(Absent, BatchFiles)), Ok(Response(Some(NoToolsClaim), <<>>)),
     Ok(Response(Some("4"), <<>>))}
InitRetry ==
    /\ InitCommon
    /\ budget = [InitBudget(0, MaxDirectCalls, 0, 0, RetryResults)
                    EXCEPT !.max_iterations = RetryIterations]

SpecRetry == InitRetry /\ [][NextDirect]_vars

\* add_assistant_message on every argument list of AssistantArgs
SpecAssistant == InitArgs(AssistantArgs) /\ [][AssistantCall]_vars

\* the consolidation at the start of a turn, for every memory_window and
\* session length of ConsolidateArgs and every outcome of its chat and writes
SpecConsolidate == InitArgs(ConsolidateArgs) /\ [][ConsolidateCall]_vars

\* The cron service after start(): a store with a one-shot job "a" (with or
\* without delete_after_run) and a repeating job "e", a callback registered
\* or not; the clock runs, the loop ticks, and a caller uses run_job,
\* enable_job and remove_job on "a", "e" and the unknown id "x".
CronStores ==
    {<<CronJob("a", AtSchedule(AtTime), d, 0), CronJob("e", EverySchedule(EveryInterval), FALSE, 0)>> :
        d \in BOOLEAN}
\* The gateway with a cron job that names no channel: its callback calls
\* process_direct(message, "cron:j", None, None) from the cron task, so the
\* turn runs for channel "cron" and chat "j", and a subagent it spawns
\* announces itself to run() with chat_id "cron:j".
CronJobArgs ==
    {[session_key |-> Some(<<"c", "r", "o", "n", ":", "j">>),
      channel |-> Absent, chat_id |-> Absent]}

CronCallbackCall ==
    /\ budget.direct > 0
    /\ \E a \in CronJobArgs, content \in UserContents :
          Begin("direct", DirectMessage(content, a), Some(DirectKey(a)))
    /\ budget' = [budget EXCEPT !.direct = @ - 1]
    /\ UNCHANGED <<serviceVars, busVars, running, run, subVars, clients>>

InitSameKey ==
    InitCommon /\ budget = InitBudget(0, MaxCallbacks, MaxSpawns, 0, CallbackResults)

\* no channel publishes here and no session is longer than memory_window, so
\* consolidate_memory is never entered
NextSameKey ==
    \/ RunStart \/ RunTop \/ RunLock \/ RunRecv \/ RunTimeout \/ RunTurnDone \/ RunSend
    \/ ChatStep("run") \/ ToolStep("run") \/ PersistStep("run")
    \/ DispatchLock \/ DispatchRecv
    \/ CronCallbackCall \/ DirectReturn
    \/ ChatStep("direct") \/ ToolStep("direct") \/ PersistStep("direct")
    \/ SubagentChat \/ SubagentSend \/ SubagentCleanup

SpecSameKey == InitSameKey /\ [][NextSameKey]_vars

\* SessionManager with callers that save, delete and get sessions by key
InitSessions == InitCommon /\ budget = InitBudget(0, 0, 0, 0, {})

NextSessions == SessionSave \/ SessionDelete \/ SessionGet

SpecSessions == InitSessions /\ [][NextSessions]_vars

\* The pairing store with its callers: the channels issue requests, the owner
\* approves and rejects them; the store starts empty or as an earlier run left it
InitPairing ==
    /\ InitAgent /\ cron = NewCron /\ channel_sent = <<>>
    /\ pairing \in {NewPairing(<<>>), NewPairing(OldPending)}
    /\ budget = InitBudget(0, 0, 0, 0, {})

NextPairing == PairingClock \/ IssuePairing \/ ApprovePairing \/ RejectPairing

SpecPairing == InitPairing /\ [][NextPairing]_vars

InitCron ==
    /\ InitAgent
    /\ budget = InitBudget(0, 0, 0, 0, {})
    /\ pairing = NoPairing
    /\ channel_sent = <<>>
    /\ \E jobs \in CronStores, on_job \in BOOLEAN :
          cron = [NewCron EXCEPT !.started = TRUE, !.jobs = jobs, !.on_job = on_job]

NextCron ==
    \/ CronClock \/ CronCollect \/ CronTake \/ CronInvoke \/ CronFinish
    \/ EnableJob \/ RemoveJob \/ RunJobBegin \/ RunJobInvoke \/ RunJobFinish

SpecCron == InitCron /\ [][NextCron]_vars

\* The ChannelManager's dispatcher with two registered mock channels, while a
\* holder of the bus publishes outbound messages for them and for a channel
\* that is not registered.
InitDispatch ==
    /\ InitAgent
    /\ budget = InitBudget(0, 0, 0, 0, {})
    /\ cron = NewCron
    /\ pairing = NoPairing
    /\ channel_sent = [c \in MockChannels |-> <<>>]

NextDispatch == MockPublishOutbound \/ TestSendOutbound \/ DispatchLock \/ DispatchRecv

SpecDispatch == InitDispatch /\ [][NextDispatch]_vars

\* A test of the SubagentManager: spawn() is called HarnessSpawns times and a
\* task consumes the inbound queue. The provider answers with tool calls, with
\* a final text or with an error.
HarnessResults ==
    {Ok(Response(Absent, BatchFiles)), Ok(Response(Some("4"), <<>>)), Err(ProviderError)}
InitSub == InitCommon /\ budget = InitBudget(0, 0, HarnessSpawns, 0, HarnessResults)

NextSub ==
    \/ SpawnCall
    \/ SubagentChat \/ SubagentSend \/ SubagentCleanup
    \/ TestLockInbound \/ TestRecvInbound

SpecSub == InitSub /\ [][NextSub]_vars

\* The same test with a provider that asks the subagent for a message to a
\* named chat, for a further subagent and for a file, or answers with a text.
BatchSubagent ==
    << ToolCall("c10", "message", [content |-> JStr("hello"), channel |-> JStr(Telegram),
                                   chat_id |-> JStr(<<"4", "2">>)]),
       ToolCall("c11", "spawn", [task |-> JStr("research")]),
       ToolCall("c12", "read_file", [path |-> JStr("notes.txt")]) >>
SubToolsResults == {Ok(Response(Absent, BatchSubagent)), Ok(Response(Some("4"), <<>>))}
InitSubTools == InitCommon /\ budget = InitBudget(0, 0, HarnessSpawns, 0, SubToolsResults)

SpecSubTools == InitSubTools /\ [][NextSub]_vars

\* The command line with subagents: process_direct is called, the provider
\* asks for a spawn, answers with a text or fails; the subagents run beside
\* the turn, and a publisher fills the inbound queue, which nobody consumes.
BatchSpawn == << ToolCall("c13", "spawn", [task |-> JStr("research")]) >>
SpawnResults ==
    {Ok(Response(Absent, BatchSpawn)), Ok(Response(Some("4"), <<>>)), Err(ProviderError)}
InitSpawn == InitCommon /\ budget = InitBudget(0, SpawnTurns, MaxSpawns, 0, SpawnResults)

NextSpawn ==
    \/ NextDirect
    \/ SubagentChat \/ SubagentSend \/ SubagentCleanup
    \/ TestPublishInbound \/ TestSendInbound

SpecSpawn == InitSpawn /\ [][NextSpawn]_vars

\* the same where the task that runs the turn is scheduled again and again,
\* and nothing is assumed of the subagents and of the queue: a subagent may
\* take its next step late or never
FairSpecSpawn == SpecSpawn /\ WF_vars(DirectTurn)

\* the same under the scheduling of the tokio runtime: a task that can take
\* its next step takes it, provider.chat returns, the consumer keeps consuming
FairSpecSub ==
    /\ SpecSub
    /\ \A id \in 1..HarnessSpawns :
          WF_vars(SubChatStep(id)) /\ WF_vars(SubSendStep(id)) /\ WF_vars(SubCleanupStep(id))
    /\ WF_vars(TestLockInbound) /\ WF_vars(TestRecvInbound)


(***************************************************************************)
(* Properties of a turn (process_message / process_system_message).        *)
(***************************************************************************)
Returned(t) == t.pc = "done" /\ t.result.v.ok

\* C1: a process_message call on a non-system message sends at most
\* MaxIterations chat requests in its iteration loop and never waits for one
\* more; when every response of the loop carried tool calls, the call has sent
\* exactly MaxIterations requests and returns the default text.
C1_LoopStopsAtCap ==
    \A e \in Execs :
        LET t == turn[e]
        IN (t.pc # "idle" /\ ~t.system) =>
              /\ t.chats <= MaxIterations
              /\ (t.pc = "chat" => t.chats < MaxIterations)
              /\ (Returned(t) /\ t.tool_resps = t.chats) =>
                    /\ t.chats = MaxIterations
                    /\ t.result.v.v.content =
                          "I've completed processing but have no response to give."

\* a call whose every response carried tool calls has returned
C1_Witness ==
    \E e \in Execs :
        /\ Returned(turn[e]) /\ ~turn[e].system
        /\ turn[e].tool_resps = MaxIterations
        /\ turn[e].result.v.v.content = DefaultNoResponse

\* C2: in one turn (normal or system) there is a fresh-context retry exactly
\* when the guard has flagged a response, and never a second one: the second
\* flagged response ends the loop with the canned tools-available response,
\* which is the only way that response is given.
C2_AtMostOneRetry ==
    \A e \in Execs :
        LET t == turn[e]
        IN t.pc # "idle" =>
              /\ t.retries <= 1
              /\ t.claims <= 2
              /\ t.retries = (IF t.claims >= 1 THEN 1 ELSE 0)
              /\ t.claims = 2 =>
                    /\ t.pc \in {"persist", "done"}
                    /\ t.final = Some("Tools are available in this runtime.")
              /\ (t.final.some /\ t.final.v = tools_available_response) => t.claims = 2

\* a system turn was flagged twice and has returned
C2_Witness ==
    \E e \in Execs :
        /\ Returned(turn[e]) /\ turn[e].system
        /\ turn[e].claims = 2 /\ turn[e].retries = 1

\* the events of executing the calls of `batch` one at a time, first to last
SequentialLog(batch) ==
    [i \in 1..(2 * Len(batch)) |->
        IF i % 2 = 1 THEN <<"start", batch[(i + 1) \div 2].id>>
        ELSE <<"return", batch[i \div 2].id>>]

\* the transcript ends with the assistant message of `batch`, the results of
\* its first k calls in call order and, once all have returned, the nudge
TranscriptTail(t, k) ==
    LET n == Len(t.batch)
        at == Len(t.messages) - k - (IF k = n THEN 1 ELSE 0)
    IN /\ at >= t.own
       /\ t.messages[at].role = "assistant"
       /\ t.messages[at].tool_calls =
             [i \in 1..n |-> [id |-> t.batch[i].id, type |-> "function",
                              name |-> t.batch[i].name,
                              arguments |-> t.batch[i].arguments]]
       /\ \A i \in 1..k :
             /\ t.messages[at + i].role = "tool"
             /\ t.messages[at + i].tool_call_id = t.batch[i].id
             /\ t.messages[at + i].name = t.batch[i].name
       /\ k = n =>
             t.messages[Len(t.messages)] =
                 [role |-> "user",
                  content |-> "Reflect on the results and decide next steps."]

\* C3: the calls t1..tn of a response are executed one at a time in the
\* returned order (a call starts only after the one before it has returned),
\* and the transcript gains the assistant message listing the n calls, then
\* the results of the calls in call order, then the "Reflect" user message.
C3_CallsInOrder ==
    \A e \in Execs :
        LET t == turn[e]
        IN t.batch # <<>> =>
              /\ Len(t.log) <= 2 * Len(t.batch)
              /\ t.log = SubSeq(SequentialLog(t.batch), 1, Len(t.log))
              /\ TranscriptTail(t, Len(t.log) \div 2)

\* the three calls of a response have all returned and the loop goes on
C3_Witness ==
    \E e \in Execs :
        /\ turn[e].batch = BatchFiles
        /\ Len(turn[e].log) = 2 * Len(BatchFiles)
        /\ turn[e].pc = "chat"

TurnKey(t) == IF t.given.some THEN t.given.v ELSE session_key(t.msg)

\* the session under `key` consists of `before`, a user record with the
\* inbound content and an assistant record with the answer (and the names of
\* the tools called, when any was), in the cache and in its file
TwoRecordsUnder(key, t) ==
    LET before == t.base.messages
        n == Len(before)
    IN /\ key \in DOMAIN cache
       /\ session_path(key) \in DOMAIN disk
       /\ disk[session_path(key)] = <<MetadataLine>> \o cache[key].messages
       /\ Len(cache[key].messages) = n + 2
       /\ SubSeq(cache[key].messages, 1, n) = before
       /\ cache[key].messages[n + 1] =
             [role |-> "user", content |-> t.msg.content, timestamp |-> t.no]
       /\ cache[key].messages[n + 2] =
             IF t.tool_resps > 0
             THEN [role |-> "assistant", content |-> t.result.v.v.content,
                   timestamp |-> t.no, tools_used |-> t.tools_used]
             ELSE [role |-> "assistant", content |-> t.result.v.v.content,
                   timestamp |-> t.no]

\* C6 as stated: the two records of a completed normal turn are in the session
\* keyed "<channel>:<chat_id>" of the message.
C6_Original ==
    \A e \in Execs :
        (Returned(turn[e]) /\ ~turn[e].system) =>
            TwoRecordsUnder(session_key(turn[e].msg), turn[e])

\* C6 (amended): a completed normal turn appends exactly two records, a user
\* record with the inbound content and an assistant record with the answer
\* (with tools_used when tools were called), to the session keyed by the
\* session_key the call was given, or "<channel>:<chat_id>" when it was given
\* none, and saves it; nothing else of the transcript is persisted.
C6_TwoRecordsUnderCallKey ==
    \A e \in Execs :
        (Returned(turn[e]) /\ ~turn[e].system) =>
            /\ TwoRecordsUnder(TurnKey(turn[e]), turn[e])
            /\ turn[e].tool_resps > 0 <=> turn[e].tools_used # <<>>

\* a cron call for a telegram chat, after two rounds of tool calls, has returned
C6_Witness ==
    \E e \in Execs :
        /\ Returned(turn[e]) /\ ~turn[e].system
        /\ turn[e].given.some
        /\ turn[e].given.v # session_key(turn[e].msg)
        /\ turn[e].tool_resps = MaxIterations

\* C7: no chat request of a turn's loop carries an assistant or tool message
\* of an earlier turn: whatever the session holds, the messages in front of
\* those the loop appended itself are system messages and user messages.
C7_NoEarlierAssistantOrTool ==
    \A e \in Execs :
        LET t == turn[e]
        IN t.pc \in {"chat", "tool", "persist", "done"} =>
              /\ t.own <= Len(t.messages) + 1
              /\ \A i \in 1..(t.own - 1) : t.messages[i].role \in {"system", "user"}
              /\ \A i \in 1..(t.own - 1) :
                    t.messages[i].role = "user" =>
                        \/ t.messages[i].content = t.msg.content
                        \/ \E j \in 1..Len(t.base.messages) :
                              /\ t.base.messages[j].role = "user"
                              /\ t.base.messages[j].content = t.messages[i].content

\* the loop sends its second request in a session that holds assistant records
C7_Witness ==
    \E e \in Execs :
        /\ turn[e].pc = "chat" /\ turn[e].chats >= 1
        /\ \E j \in 1..Len(turn[e].base.messages) :
              turn[e].base.messages[j].role = "assistant"

(***************************************************************************)
(* Properties of run(), of the subagents and of the bus.                   *)
(***************************************************************************)
\* the apology for the failure `err` of the turn of msg
Apology(msg, err) ==
    [channel |-> msg.channel, chat_id |-> msg.chat_id,
     content |-> <<"Sorry, I encountered an error: ", err>>,
     reply_to |-> Absent, media |-> <<>>, metadata |-> msg.metadata]

\* C5: when process_message fails for a consumed message, run() publishes
\* one OutboundMessage and no other for it: "Sorry, I encountered an error:
\* <error>", addressed to the message's channel and chat_id, with its
\* metadata; run() then goes back to its loop, and it has returned only if
\* stop() was called.
C5_ApologyThenContinue ==
    /\ run.failed =>
          /\ run.pc \in {"send", "top", "lock", "recv", "returned"}
          /\ \E err \in {ProviderError, SaveError} :
                run.response.v = Apology(run.msg.v, err)
          /\ run.sent = IF run.pc = "send" THEN <<>> ELSE <<run.response.v>>
    /\ run.pc = "returned" => (budget.stop = 0 /\ ~running)

\* after a failed turn run() has consumed the next message
C5_Witness ==
    /\ run.failures >= 1
    /\ run.pc = "turn"
    /\ turn["run"].no = 2

\* the announcements published so far, oldest first
Delivered == clients["cin"].got \o inbound

\* each task has announced itself at most once, with a system message for
\* the origin of its spawn call, and nothing else was published
AnnouncedAtMostOnce ==
    /\ \A id \in DOMAIN tasks :
          /\ tasks[id].published <= 1
          /\ tasks[id].published = 1 =>
                \E i \in 1..Len(Delivered) :
                    /\ Delivered[i] = Announce(tasks[id])
                    /\ Delivered[i].channel = <<"s", "y", "s", "t", "e", "m">>
                    /\ Delivered[i].chat_id =
                          tasks[id].origin_channel \o <<":">> \o tasks[id].origin_chat_id
    /\ Len(Delivered) = Cardinality({id \in DOMAIN tasks : tasks[id].published = 1})

SplitsAtFirstColon(s, c, i) ==
    /\ s = c \o <<":">> \o i
    /\ \A k \in 1..Len(c) : c[k] # ":"

\* C9: a system message with chat_id "C:I" is handled for the C and I on the
\* two sides of the first ':': the tool context is (C, I), the session is
\* "C:I", the two records of the exchange are appended to it and the
\* returned OutboundMessage is addressed to (C, I); and the completion
\* message of a subagent spawned in a turn for (C, I), C free of ':', names
\* and is answered to that (C, I).
C9_SystemTurnOrigin ==
    /\ \A e \in Execs :
          LET t == turn[e]
          IN (t.pc # "idle" /\ t.system /\ \E k \in 1..Len(t.msg.chat_id) :
                                                t.msg.chat_id[k] = ":") =>
                /\ SplitsAtFirstColon(t.msg.chat_id, t.channel, t.chat_id)
                /\ tool_ctx.message = <<t.channel, t.chat_id>>
                /\ tool_ctx.spawn = <<t.channel, t.chat_id>>
                /\ t.session.key = t.msg.chat_id
                /\ Returned(t) =>
                      /\ t.result.v.v.channel = t.channel
                      /\ t.result.v.v.chat_id = t.chat_id
                      /\ cache[t.msg.chat_id].messages =
                            t.base.messages \o
                            <<[role |-> "user", timestamp |-> t.no,
                               content |-> <<"[System: ", t.msg.sender_id, "] ",
                                             t.msg.content>>],
                              [role |-> "assistant", timestamp |-> t.no,
                               content |-> t.result.v.v.content]>>
                /\ \E id \in DOMAIN tasks :
                      /\ tasks[id].published = 1
                      /\ t.msg = Announce(tasks[id])
                      /\ tasks[id].spawner = <<t.channel, t.chat_id>>
    /\ \A id \in DOMAIN tasks :
          LET task == tasks[id]
          IN (\A k \in 1..Len(task.spawner[1]) : task.spawner[1][k] # ":") =>
                /\ <<task.origin_channel, task.origin_chat_id>> = task.spawner
                /\ task.result.some =>
                      SplitsAtFirstColon(Announce(task).chat_id, task.spawner[1],
                                         task.spawner[2])

\* the completion message of a subagent spawned for the telegram chat "4:2"
\* has been answered
C9_Witness ==
    /\ Returned(turn["run"])
    /\ turn["run"].system
    /\ turn["run"].msg.chat_id = <<"t", "g", ":", "4", ":", "2">>
    /\ turn["run"].result.v.v.chat_id = <<"4", ":", "2">>

\* the first n messages of the test for queue q
Published(q, n) == [i \in 1..n |-> [queue |-> q, seq |-> i]]

\* what was consumed from a queue, followed by what it still holds, is what
\* was published to it, in the order of publication
FifoQueues ==
    /\ clients["cin"].got \o inbound = Published("in", clients["pin"].n)
    /\ clients["cout"].got \o outbound = Published("out", clients["pout"].n)

\* C10: each bus queue is FIFO: the messages consume_* returns are the
\* messages publish_* enqueued on that queue, in the order they were
\* published; and the queues are independent: a step that changes one
\* queue or its counter leaves the other queue and its counter alone.
C10_FifoAndIndependent ==
    /\ []FifoQueues
    /\ [][/\ (inbound' # inbound \/ inbound_size' # inbound_size) =>
                (outbound' = outbound /\ outbound_size' = outbound_size)
          /\ (outbound' # outbound \/ outbound_size' # outbound_size) =>
                (inbound' = inbound /\ inbound_size' = inbound_size)]_vars

\* MaxBusMessages messages were published to each queue and consumed in order
C10_Witness ==
    /\ clients["cin"].got = Published("in", MaxBusMessages)
    /\ clients["cout"].got = Published("out", MaxBusMessages)

\* no publish_* and no consume_* of the bus test is in progress on queue q
Quiescent(q) ==
    IF q = "in" THEN clients["pin"].pc = "idle" /\ clients["cin"].pc = "idle"
    ELSE clients["pout"].pc = "idle" /\ clients["cout"].pc = "idle"

\* C11: whenever no publish_* or consume_* is in progress on a queue, its
\* depth counter is the number of messages the queue holds; and after K
\* publishes and K consumes on both queues, both counters are 0.
C11_CounterTracksDepth ==
    /\ Quiescent("in") => inbound_size = Len(inbound)
    /\ Quiescent("out") => outbound_size = Len(outbound)
    /\ \A k \in 1..MaxBusMessages :
          (/\ Quiescent("in") /\ Quiescent("out")
           /\ clients["pin"].n = k /\ Len(clients["cin"].got) = k
           /\ clients["pout"].n = k /\ Len(clients["cout"].got) = k)
          => (inbound_size = 0 /\ outbound_size = 0)

\* MaxBusMessages messages went through each queue and the counters are back at 0
C11_Witness ==
    /\ Quiescent("in") /\ Quiescent("out")
    /\ clients["pin"].n = MaxBusMessages /\ Len(clients["cin"].got) = MaxBusMessages
    /\ clients["pout"].n = MaxBusMessages /\ Len(clients["cout"].got) = MaxBusMessages
    /\ inbound_size = 0 /\ outbound_size = 0

\* the step completes the publish_* of client c on `queue`: the queue was
\* not full and the message is appended to it
CompletesByEnqueue(c, queue, queue_after) ==
    clients'[c].n # clients[c].n =>
        /\ Len(queue) < Capacity
        /\ queue_after = Append(queue, clients[c].msg.v)

\* the step leaves `queue` alone, appends one message or removes its head
NothingDropped(queue, queue_after) ==
    \/ queue_after = queue
    \/ queue_after # <<>> /\ queue_after = Append(queue, queue_after[Len(queue_after)])
    \/ queue # <<>> /\ queue_after = Tail(queue)

\* C12: a bus queue never holds more than Capacity messages; a publish_*
\* completes only by a step that finds the queue below capacity and appends
\* its message, so on a full queue it stays pending until a consume_* has
\* removed a message; and no step drops or overwrites a queued message:
\* what was consumed followed by what is queued is what was published.
C12_BoundedAndNothingLost ==
    /\ [](Len(inbound) <= Capacity /\ Len(outbound) <= Capacity)
    /\ [](/\ clients["cin"].got \o inbound = Published("in", clients["pin"].n)
          /\ clients["cout"].got \o outbound = Published("out", clients["pout"].n))
    /\ [][/\ CompletesByEnqueue("pin", inbound, inbound')
          /\ CompletesByEnqueue("pout", outbound, outbound')
          /\ NothingDropped(inbound, inbound')
          /\ NothingDropped(outbound, outbound')]_vars

\* a publish_inbound is pending on a full queue
C12_Witness ==
    /\ Len(inbound) = Capacity
    /\ clients["pin"].pc = "send"
    /\ clients["pin"].msg = Some(TestMessage("in", Capacity + 1))

\* how often message m occurs in the sequence ms
Occurrences(m, ms) == Cardinality({i \in DOMAIN ms : ms[i] = m})

\* the messages the consume_inbound calls of the two consumers returned
Consumed == clients["cin"].got \o clients["cin2"].got

\* C13: every message published to a queue is returned by exactly one
\* consume_* call, never by two and never lost, when two tasks call
\* consume_inbound concurrently and one of them abandons pending calls on a
\* timeout: each published message is either still queued or was returned
\* once, the queued ones are the newest in publication order, and each
\* consumer received its messages in publication order.
C13_ConsumedExactlyOnce ==
    /\ \A i \in 1..clients["pin"].n :
          Occurrences(TestMessage("in", i), Consumed \o inbound) = 1
    /\ Len(Consumed) + Len(inbound) = clients["pin"].n
    /\ \A i \in 1..Len(inbound) : inbound[i] = TestMessage("in", Len(Consumed) + i)
    /\ \A c \in {"cin", "cin2"} :
          \A i, j \in DOMAIN clients[c].got :
              i < j => clients[c].got[i].seq < clients[c].got[j].seq

\* both consumers received messages, all were consumed, and the consumer
\* under the timeout had abandoned calls before
C13_Witness ==
    /\ clients["cin"].got # <<>>
    /\ clients["cin2"].got # <<>>
    /\ clients["cin2"].n >= 1
    /\ Len(Consumed) = MaxBusMessages

\* an execution of process_message is in progress in e
InProgress(e) == turn[e].pc \notin {"idle", "done"}

\* C14: at most one execution of process_message is in progress on the
\* AgentLoop at any moment, be it started by run() or by process_direct in
\* the cron or heartbeat callback.
C14_OneTurnAtATime == ~(InProgress("run") /\ InProgress("direct"))

\* C15: in a turn for (channel, chat_id), every `message` call without an
\* explicit target was delivered to that (channel, chat_id), and every
\* subagent was started with the (channel, chat_id) of the turn that
\* spawned it as its origin, whatever other turns do meanwhile.
C15_ToolsUseOwnTurnContext ==
    /\ \A e \in Execs :
          LET t == turn[e]
          IN t.pc # "idle" =>
                \A i \in DOMAIN t.messages :
                    (t.messages[i].role = "tool" /\ t.messages[i].name = "message") =>
                        t.messages[i].content =
                            <<"Message sent to ", t.channel, ":", t.chat_id>>
    /\ \A id \in DOMAIN tasks :
          <<tasks[id].origin_channel, tasks[id].origin_chat_id>> = tasks[id].spawner

\* C16: a process_message call whose chat request failed has returned the
\* provider's error without sending another request or reaching the persist
\* step, and, when no consolidation ran in the turn, the session of its key
\* is in the cache and in the sessions directory exactly what it was when the
\* turn started: no user record and no answer was appended.
C16_FailedChatLeavesSession ==
    \A e \in Execs :
        LET t == turn[e]
            key == t.session.key
        IN (t.pc = "done" /\ ~t.result.v.ok /\ t.result.v.err = ProviderError) =>
              /\ t.final = Absent
              /\ t.calls = <<>>
              /\ ~t.consolidated =>
                    /\ key \in DOMAIN cache
                    /\ cache[key] = t.base
                    /\ get_or_create(cache, disk, key) = t.base
                    /\ StoredFile(disk, key) = t.stored
                    /\ t.stored.some => load(disk, key).v = t.base

\* the second chat request of a turn on the stored telegram session failed,
\* after the tool calls of the first response were executed
C16_Witness ==
    \E e \in Execs :
        /\ turn[e].pc = "done" /\ ~turn[e].result.v.ok
        /\ turn[e].result.v.err = ProviderError
        /\ ~turn[e].consolidated
        /\ turn[e].chats = 2 /\ turn[e].tool_resps = 1
        /\ turn[e].stored.some

\* C17: once stop() has been called, run() eventually returns by itself,
\* whenever the call comes: before the run() task has started, while it
\* waits for a message, during a turn or while it waits in publish_outbound.
C17_StopEndsRun == (budget.stop = 0) ~> (run.pc = "returned")


\* what has ever been put on each queue, in order, where "cin" and "cout"
\* are the only consumers
InboundEver == clients["cin"].got \o inbound
OutboundEver == clients["cout"].got \o outbound

\* the handle_message calls whose publish has completed or that have returned
Handled ==
    [i \in 1..Len(clients["hm"].returned) |-> clients["hm"].returned[i].call]
    \o (IF clients["hm"].call.some /\ clients["hm"].n > clients["hm"].call.v.n
        THEN <<clients["hm"].call.v>> ELSE <<>>)
\* ... and those that have begun
Begun ==
    [i \in 1..Len(clients["hm"].returned) |-> clients["hm"].returned[i].call]
    \o (IF clients["hm"].call.some THEN <<clients["hm"].call.v>> ELSE <<>>)

AllowedCall(call) == is_allowed_sender(call.sender_id, ChannelAllowFrom)

RECURSIVE PromptsWithin(_, _)
\* the outbound messages ms are pairing prompts of the channel, in the order
\* of the calls, each to the chat of a call of its own
PromptsWithin(ms, calls) ==
    IF ms = <<>> THEN TRUE
    ELSE IF calls = <<>> THEN FALSE
    ELSE \/ /\ Head(ms).channel = Telegram
            /\ Head(ms).chat_id = Head(calls).chat_id
            /\ Head(ms).content \in {pairing_prompt([code |-> PairingCode, is_new |-> b]) :
                                        b \in BOOLEAN}
            /\ PromptsWithin(Tail(ms), Tail(calls))
         \/ PromptsWithin(ms, Tail(calls))

\* C18: the default handle_message publishes an InboundMessage carrying the
\* given media and metadata if and only if the sender is allowed: the inbound
\* queue has received exactly the messages of the allowed calls, one each and
\* in order. For the calls of disallowed senders nothing reached the inbound
\* queue, the outbound queue received at most one pairing prompt per call,
\* addressed to that call's chat, and each such call that returned gave Ok.
C18_HandleMessageGate ==
    /\ InboundEver = [i \in 1..Len(SelectSeq(Handled, AllowedCall)) |->
                         HandledMessage(SelectSeq(Handled, AllowedCall)[i])]
    /\ PromptsWithin(OutboundEver, SelectSeq(Begun, LAMBDA c : ~AllowedCall(c)))
    /\ \A i \in 1..Len(clients["hm"].returned) :
          ~AllowedCall(clients["hm"].returned[i].call) => clients["hm"].returned[i].result.ok

\* three calls have returned: one of an allowed alias with a media file, which
\* is on the inbound side, and two of a disallowed sender in two chats, for
\* one of which a prompt went out while none could be issued for the other
C18_Witness ==
    /\ Len(clients["hm"].returned) = 3
    /\ \E i \in 1..3 :
          /\ clients["hm"].returned[i].call.sender_id = <<"z", "|", "b">>
          /\ clients["hm"].returned[i].call.media # <<>>
    /\ \E i, j \in 1..3 :
          /\ clients["hm"].returned[i].call.sender_id = <<"z">>
          /\ clients["hm"].returned[j].call.sender_id = <<"z">>
          /\ clients["hm"].returned[i].call.chat_id # clients["hm"].returned[j].call.chat_id
    /\ Len(InboundEver) = 1 /\ InboundEver[1].media # <<>>
    /\ Len(OutboundEver) = 1 /\ OutboundEver[1].chat_id = <<"7">>


\* the '|'-delimited parts of a sender id: the stretches without '|' that
\* reach from the start or a '|' to the next '|' or the end
PartsOf(id) ==
    {SubSeq(id, i, j) : <<i, j>> \in
        {p \in (1..Len(id) + 1) \X (0..Len(id)) :
            /\ p[2] >= p[1] - 1
            /\ \A k \in p[1]..p[2] : id[k] # Pipe
            /\ (p[1] = 1 \/ id[p[1] - 1] = Pipe)
            /\ (p[2] = Len(id) \/ id[p[2] + 1] = Pipe)}}

EntriesOf(allow_from) == {allow_from[i] : i \in 1..Len(allow_from)}

\* the id is an entry of the list, or one of its parts is
Listed(id, allow_from) ==
    id \in EntriesOf(allow_from) \/ PartsOf(id) \cap EntriesOf(allow_from) # {}

\* C19 as stated: for every allow_from list and sender id, the sender is
\* allowed exactly when its id equals an entry of allow_from or one of the
\* '|'-delimited parts of its id equals an entry.
C19_AllowedIffListed ==
    clients["hm"].call.some =>
        (clients["hm"].call.v.allowed
            <=> Listed(clients["hm"].call.v.sender_id, clients["hm"].call.v.allow_from))

\* C19 amended: with an empty allow_from every sender is allowed; with a
\* non-empty one the sender is allowed exactly when its id equals an entry or
\* one of the '|'-delimited parts of its id equals an entry.
C19_AllowedIffListedOrOpen ==
    clients["hm"].call.some =>
        (clients["hm"].call.v.allowed
            <=> \/ clients["hm"].call.v.allow_from = <<>>
                \/ Listed(clients["hm"].call.v.sender_id, clients["hm"].call.v.allow_from))

\* an id that is no entry of a non-empty list was allowed for one of its parts
C19_Witness ==
    /\ clients["hm"].call.some
    /\ clients["hm"].call.v.allow_from # <<>>
    /\ clients["hm"].call.v.sender_id \notin EntriesOf(clients["hm"].call.v.allow_from)
    /\ clients["hm"].call.v.sender_id = <<"b", Pipe, "a">>
    /\ clients["hm"].call.v.allowed


\* the call passes ToolRegistry::execute's two checks
Executable(tc) ==
    /\ tc.name \in MainRegistry
    /\ validate_params(ToolParameters(tc.name), tc.arguments) = <<>>

\* the text a refused call is answered with
IsRefusalText(tc, text) ==
    IF tc.name \in MainRegistry
    THEN /\ Len(text) > 3
         /\ SubSeq(text, 1, 3) = <<"Error: Invalid parameters for tool '", tc.name, "': ">>
    ELSE text = <<"Error: Tool '", tc.name, "' not found">>

\* C20: ToolRegistry.execute runs a tool's body only when the name is
\* registered and validate_params returned no errors: whenever the execute of
\* a call that is unregistered or fails validation returns, the tool message
\* added for it carries the 'not found' or the 'Invalid parameters' text, and
\* nothing else has changed: no message was sent, no task spawned, no tool
\* context, session, file or memory touched.
C20_RefusedCallsDoNothing ==
    [][\A e \in Execs :
          (turn[e].pc = "tool" /\ turn'[e] # turn[e] /\ ~Executable(Head(turn[e].calls)))
          => /\ turn'[e].messages[Len(turn[e].messages) + 1].role = "tool"
             /\ turn'[e].messages[Len(turn[e].messages) + 1].tool_call_id
                   = Head(turn[e].calls).id
             /\ IsRefusalText(Head(turn[e].calls),
                              turn'[e].messages[Len(turn[e].messages) + 1].content)
             /\ UNCHANGED <<busVars, storeVars, tool_ctx, subVars>>]_vars

\* the turn has answered the two calls with a parameter of the wrong type and
\* is at the valid call that follows them, with nothing sent and nothing spawned
C20_Witness ==
    /\ turn["direct"].pc = "tool"
    /\ Head(turn["direct"].calls).id = "c9"
    /\ \E i \in 1..Len(turn["direct"].messages) - 1 :
          /\ turn["direct"].messages[i].role = "tool"
          /\ turn["direct"].messages[i].tool_call_id = "c7"
          /\ turn["direct"].messages[i].content[1] = "Error: Invalid parameters for tool '"
          /\ turn["direct"].messages[i + 1].role = "tool"
          /\ turn["direct"].messages[i + 1].tool_call_id = "c8"
          /\ turn["direct"].messages[i + 1].content[1] = "Error: Invalid parameters for tool '"
    /\ outbound = <<>>
    /\ tasks = <<>>


\* the caller "fn" holds the result of its call
Called == clients["fn"].call.some
CallArgs == clients["fn"].call.v.args
CallResult == clients["fn"].call.v.result
Has(params, key) == key \in DOMAIN params
\* the error texts of validate_value, as they appear in a list of errors
MissingIn(errors, key) ==
    \E i \in 1..Len(errors) :
        Len(errors[i]) = 2 /\ errors[i][2] = key /\ errors[i][1] = "missing required "
WrongTypeIn(errors, key, type) ==
    \E i \in 1..Len(errors) :
        \/ /\ type = "string" /\ Len(errors[i]) = 2
           /\ errors[i][2] = " should be string" /\ errors[i][1] = <<key>>
        \/ /\ type # "string" /\ Len(errors[i]) = 3
           /\ errors[i][2] = " should be " /\ errors[i][3] = type /\ errors[i][1] = <<key>>
RangeIn(errors, key, relation, limit) ==
    \E i \in 1..Len(errors) :
        /\ Len(errors[i]) = 3 /\ errors[i][2] = relation
        /\ errors[i][3] = limit /\ errors[i][1] = <<key>>
TooShortIn(errors, key, limit) ==
    \E i \in 1..Len(errors) :
        /\ Len(errors[i]) = 4 /\ errors[i][2] = " must be at least "
        /\ errors[i][3] = limit /\ errors[i][1] = <<key>>

\* query is a string of at least 2 characters / of at least 2 bytes
QueryOk(params) ==
    Has(params, "query") /\ params.query.t = "string" /\ Len(params.query.v) >= 2
QueryOkInBytes(params) ==
    Has(params, "query") /\ params.query.t = "string" /\ str_len(params.query.v) >= 2
CountOk(params) ==
    Has(params, "count") /\ params.count.t = "integer" /\ params.count.v \in 1..10

\* an error is reported for each missing required key, each wrongly typed
\* value and each value out of range (the length of query apart), and dropping
\* the key the schema does not name changes nothing
ErrorsReported(params, errors) ==
    /\ ~Has(params, "query") <=> MissingIn(errors, "query")
    /\ ~Has(params, "count") <=> MissingIn(errors, "count")
    /\ (Has(params, "query") /\ params.query.t # "string")
          <=> WrongTypeIn(errors, "query", "string")
    /\ (Has(params, "count") /\ params.count.t # "integer")
          <=> WrongTypeIn(errors, "count", "integer")
    /\ (Has(params, "count") /\ params.count.t = "integer" /\ params.count.v < 1)
          <=> RangeIn(errors, "count", " must be >= ", 1)
    /\ (Has(params, "count") /\ params.count.t = "integer" /\ params.count.v > 10)
          <=> RangeIn(errors, "count", " must be <= ", 10)
    /\ errors = validate_params(SampleSchema,
                                [k \in DOMAIN params \ {"extra"} |-> params[k]])

\* C21: for the object schema with required properties query: string
\* (minLength 2) and count: integer (minimum 1, maximum 10), validate_params
\* returns an empty list exactly when query is a string of length at least 2
\* and count is an integer in 1..10; it reports an error for each missing
\* required key, wrongly typed value and out-of-range value, among them a
\* query shorter than 2, and a key the schema does not name causes no error.
C21_ValidationExact ==
    Called =>
        /\ CallResult = <<>> <=> (QueryOk(CallArgs) /\ CountOk(CallArgs))
        /\ ErrorsReported(CallArgs, CallResult)
        /\ (Has(CallArgs, "query") /\ CallArgs.query.t = "string"
                /\ Len(CallArgs.query.v) < 2)
              <=> TooShortIn(CallResult, "query", 2)

\* what holds of validate_params: the same with the length of query counted
\* in bytes of UTF-8
ValidationExactInBytes ==
    Called =>
        /\ CallResult = <<>> <=> (QueryOkInBytes(CallArgs) /\ CountOk(CallArgs))
        /\ ErrorsReported(CallArgs, CallResult)
        /\ (Has(CallArgs, "query") /\ CallArgs.query.t = "string"
                /\ str_len(CallArgs.query.v) < 2)
              <=> TooShortIn(CallResult, "query", 2)


\* the positions of the role="user" records of a list of records, and the
\* position of the k-th of them
UserPositions(messages) ==
    {j \in 1..Len(messages) : "role" \in DOMAIN messages[j] /\ messages[j].role = "user"}
UserPosition(messages, k) ==
    CHOOSE j \in UserPositions(messages) :
        Cardinality({h \in UserPositions(messages) : h <= j}) = k

\* C22: for every session and every n >= 0, get_history(n) returns exactly
\* the last min(n, u) of the session's u role="user" records, in their
\* original order and reduced to role and content, and never a record of
\* another role.
C22_HistoryIsLastUserRecords ==
    Called =>
        LET messages == CallArgs.session.messages
            u == Cardinality(UserPositions(messages))
            len == Min(CallArgs.max_messages, u)
        IN /\ Len(CallResult) = len
           /\ \A i \in 1..len :
                 /\ CallResult[i].role = "user"
                 /\ DOMAIN CallResult[i] = {"role", "content"}
                 /\ CallResult[i].content
                       = messages[UserPosition(messages, u - len + i)].content

\* a session of user, assistant, user records with different contents was
\* asked for one record, and the later user record came back
C22_Witness ==
    /\ Called
    /\ Len(CallArgs.session.messages) = 3
    /\ CallArgs.session.messages[1] = [role |-> "user", content |-> "u1", timestamp |-> 0]
    /\ CallArgs.session.messages[2].role = "assistant"
    /\ CallArgs.session.messages[3] = [role |-> "user", content |-> "u2", timestamp |-> 0]
    /\ CallArgs.max_messages = 1
    /\ CallResult = <<[role |-> "user", content |-> "u2"]>>

(***************************************************************************)
(* Properties of a subagent run (run_subagent) and of the running-task map. *)
(***************************************************************************)
\* the tool calls of a response that name `name`
CallsOf(r, name) ==
    IF r.ok THEN SelectSeq(r.v.tool_calls, LAMBDA tc : tc.name = name) ELSE <<>>

\* C23: a subagent can neither spawn a subagent nor send a message to a user:
\* its registry holds neither 'message' nor 'spawn', and a step of its run,
\* whatever tool calls the response carries, starts no task and publishes no
\* OutboundMessage
C23_SubagentNeitherSpawnsNorSends ==
    [][/\ "message" \notin SubagentRegistry
       /\ "spawn" \notin SubagentRegistry
       /\ \A id \in DOMAIN tasks :
             SubChatStep(id) =>
                /\ DOMAIN tasks' = DOMAIN tasks
                /\ running_tasks' = running_tasks
                /\ outbound' = outbound]_vars

\* a subagent has been through an iteration whose response asked for a
\* message and for a spawn
C23_Witness ==
    /\ \A r \in budget.results :
          r.ok /\ has_tool_calls(r.v) => CallsOf(r, "message") # <<>> /\ CallsOf(r, "spawn") # <<>>
    /\ \E id \in DOMAIN tasks : tasks[id].iter >= 1

\* SubagentManager::get_running_count
get_running_count == Cardinality(running_tasks)

\* the tasks whose spawn() call has returned, and those of them still running
Spawned == {id \in DOMAIN tasks : ~tasks[id].spawn_call.some}
Unfinished == {id \in Spawned : tasks[id].pc # "done"}

\* C24: the running-task map is pruned on completion: of the tasks spawn() has
\* returned for, the map holds exactly the unfinished ones, so that
\* get_running_count() is their number, and 0 once all have finished
C24_MapHoldsUnfinishedTasks ==
    /\ \A id \in Spawned : tasks[id].pc = "done" => id \notin running_tasks
    /\ Spawned # {} => get_running_count = Cardinality(Unfinished)

\* the turn `e` is inside process_message
InTurn(e) == turn[e].pc \notin {"idle", "done"}

\* the subagents the turn in flight of `e` has started
StartedBy(e) ==
    {id \in DOMAIN tasks : \E i \in 1..Len(turn[e].messages) :
        /\ turn[e].messages[i].role = "tool"
        /\ turn[e].messages[i].name = "spawn"
        /\ turn[e].messages[i].content =
              <<"Subagent [", tasks[id].label, "] started (id: ", id, ")">>}

\* C25: spawn() returns its acknowledgement without waiting for the subagent:
\* a turn whose spawn call has started a task gets the acknowledgement as the
\* call's result, and every turn finishes, with the turn's task scheduled and
\* nothing assumed of the subagents (slow, failed or blocked in publish_inbound)
C25_TurnNeverWaitsForSubagent ==
    /\ \A id \in 1..MaxSpawns :
          (id \in PendingSpawns("direct")) ~> (id \in StartedBy("direct"))
    /\ InTurn("direct") ~> (turn["direct"].pc = "done")

\* a turn has finished with its reply while the subagent it started is
\* blocked publishing its announcement into the full inbound queue
C25_Witness ==
    /\ turn["direct"].pc = "done"
    /\ turn["direct"].result.some /\ turn["direct"].result.v.ok
    /\ \E id \in StartedBy("direct") :
          /\ tasks[id].pc = "send"
          /\ Len(inbound) = Capacity

(***************************************************************************)
(* Properties of the memory consolidation.                                 *)
(***************************************************************************)
\* the number of records a consolidation keeps, by cases of memory_window
KeptFor(memory_window) ==
    IF memory_window < 4 THEN 2
    ELSE IF memory_window >= 20 THEN 10
    ELSE memory_window \div 2

\* a consolidation that ran and returned Ok
Consolidated == Called /\ CallResult.called /\ CallResult.ok

\* C26: a turn that starts with more than memory_window records and whose
\* consolidation succeeds goes on with the most recent
\* min(10, max(2, memory_window / 2)) records of the session (all of them when
\* there are fewer), in their order, and that session is what sessions.save
\* has written; with memory_window records or fewer consolidate_memory is not
\* called and the session is as it was
C26_KeepsMostRecentRecords ==
    Called =>
      LET before == CallArgs.session.messages
          after == CallResult.session.messages
          n == Len(before)
          kept == Min(n, KeptFor(CallArgs.memory_window))
      IN /\ CallResult.called <=> n > CallArgs.memory_window
         /\ ~CallResult.called => after = before /\ ~CallResult.saved
         /\ Consolidated =>
               /\ Len(after) = kept
               /\ \A i \in 1..kept : after[i] = before[n - kept + i]
               /\ kept < n => CallResult.saved

\* a session longer than a memory_window of 20 or more has been cut to its
\* last 10 records and saved
C26_Witness ==
    /\ Consolidated
    /\ CallArgs.memory_window >= 20
    /\ Len(CallResult.session.messages) = KeepCountMax
    /\ CallResult.session.messages[1].timestamp = Len(CallArgs.session.messages) - 9
    /\ CallResult.saved

\* the failures of a consolidation before it cuts the session
ListedFailures == {ProviderError, NonJsonError, HistoryWriteError, MemoryWriteError}
FailedConsolidation(t) == t.warning.some /\ t.warning.v \in ListedFailures

\* C27: a consolidation that fails with a provider error, a non-JSON answer
\* or a failed history or memory write does not end the turn and leaves the
\* session whole: the turn enters its loop with the session as it was loaded,
\* nothing is written to the sessions directory, the turn ends only after a
\* chat request, and a reply comes with the old records, followed by the
\* turn's two, in the session and in its file
C27_FailedConsolidationKeepsTurn ==
    /\ [][\A e \in Execs :
            (turn[e].pc = "consolidate" /\ turn'[e].pc # "consolidate"
             /\ FailedConsolidation(turn'[e])) =>
                /\ turn'[e].pc = "chat"
                /\ turn'[e].session = turn[e].session
                /\ disk' = disk /\ cache' = cache]_vars
    /\ [](\A e \in Execs :
            FailedConsolidation(turn[e]) =>
               LET t == turn[e]
                   old == t.base.messages
               IN /\ Len(old) > MemoryWindow
                  /\ t.pc # "done" => cache[t.session.key] = t.base
                  /\ t.pc = "done" =>
                        /\ t.chats >= 1
                        /\ t.result.some
                        /\ t.result.v.ok =>
                              /\ Len(t.session.messages) = Len(old) + 2
                              /\ SubSeq(t.session.messages, 1, Len(old)) = old
                              /\ load(disk, t.session.key).v = t.session)

\* a turn whose consolidation failed has replied
C27_Witness ==
    \E e \in Execs :
        /\ FailedConsolidation(turn[e])
        /\ turn[e].pc = "done"
        /\ turn[e].result.some /\ turn[e].result.v.ok
        /\ turn[e].chats >= 1

(***************************************************************************)
(* Properties of the message a turn returns.                               *)
(***************************************************************************)
\* the turns that have returned Ok(OutboundMessage)
Replied == {e \in Execs : turn[e].pc = "done" /\ turn[e].result.some /\ turn[e].result.v.ok}

\* the returned message carries the final answer: the text of the last
\* response if it had one, and what the session records as the assistant's
CarriesAnswer(t) ==
    LET out == t.result.v.v
        records == t.session.messages
    IN /\ t.final.some => out.content = t.final.v
       /\ records[Len(records)].role = "assistant"
       /\ records[Len(records)].content = out.content

AppendedAssistant ==
    /\ Len(CallResult) = Len(CallArgs.messages) + 1
    /\ SubSeq(CallResult, 1, Len(CallArgs.messages)) = CallArgs.messages
    /\ CallResult[Len(CallResult)].role = "assistant"
    /\ CallResult[Len(CallResult)].content =
          (IF CallArgs.content.some THEN CallArgs.content.v ELSE "")

\* the field `name` of the appended message is there exactly when `given`
\* holds, and then it is the argument's value
FieldIff(name, arg, given) ==
    LET m == CallResult[Len(CallResult)]
    IN /\ (name \in DOMAIN m) <=> given
       /\ name \in DOMAIN m => m[name] = arg.v

\* C29: add_assistant_message appends exactly one assistant message, which
\* has a tool_calls field only when a non-empty list of tool calls is given
\* and a reasoning_content field only when a non-empty text is given
C29_EmptyFieldsOmitted ==
    Called =>
       /\ AppendedAssistant
       /\ FieldIff("tool_calls", CallArgs.tool_calls,
                   CallArgs.tool_calls.some /\ CallArgs.tool_calls.v # <<>>)
       /\ FieldIff("reasoning_content", CallArgs.reasoning_content,
                   CallArgs.reasoning_content.some /\ CallArgs.reasoning_content.v # "")

\* what holds instead: the tool_calls field is there whenever a list is
\* given, an empty one included
AssistantFieldsAsGiven ==
    Called =>
       /\ AppendedAssistant
       /\ FieldIff("tool_calls", CallArgs.tool_calls, CallArgs.tool_calls.some)
       /\ FieldIff("reasoning_content", CallArgs.reasoning_content,
                   CallArgs.reasoning_content.some /\ CallArgs.reasoning_content.v # "")

(***************************************************************************)
(* Properties of the fresh-context retry.                                  *)
(***************************************************************************)
\* the messages m are a fresh context for the turn t followed by the
\* correction: system prompt, runtime facts, the current user message
FreshContext(m, t) ==
    /\ m[1].role = "system" /\ m[1] = t.messages[1]
    /\ m[2] = runtime_facts_message
    /\ m[3] = [role |-> "user",
               content |-> build_user_content(t.msg.content,
                                              IF t.system THEN <<>> ELSE t.msg.media)]
    /\ m[4] = correction_message

\* C30: the fresh-context retry replaces the message array: the request of
\* the retry is the system prompt, the runtime-facts message, the current
\* user message and the correction message, and nothing else - no assistant
\* message, tool result or nudge of the iterations before it; and these four
\* stay the head of the array for the rest of the turn
C30_RetryReplacesMessages ==
    /\ [][\A e \in Execs :
            (turn[e].pc = "chat" /\ turn[e].retries = 0 /\ turn'[e].retries = 1) =>
                /\ Len(turn'[e].messages) = 4
                /\ FreshContext(turn'[e].messages, turn[e])]_vars
    /\ [](\A e \in Execs :
            (turn[e].pc \in {"chat", "tool"} /\ turn[e].retries = 1) =>
                /\ Len(turn[e].messages) >= 4
                /\ FreshContext(turn[e].messages, turn[e]))

\* the retry request is about to be sent in a turn that had executed tool
\* calls before the guard flagged a response
C30_Witness ==
    \E e \in Execs :
        /\ turn[e].pc = "chat" /\ turn[e].retries = 1
        /\ turn[e].tool_resps >= 1
        /\ Len(turn[e].messages) = 4

(***************************************************************************)
(* What a turn sends to the model first.                                   *)
(***************************************************************************)
\* the request holds the system prompt, the runtime facts and the message of
\* the turn t, and nothing else
OnlyCurrentTurn(m, t) ==
    /\ Len(m) = 3
    /\ m[1].role = "system" /\ m[1].content[1] = "system prompt"
    /\ m[1].content[4] = t.channel /\ m[1].content[6] = t.chat_id
    /\ m[2] = runtime_facts_message
    /\ m[3].role = "user"
    /\ m[3].content = build_user_content(t.msg.content,
                                         IF t.system THEN <<>> ELSE t.msg.media)

\* the turn is about to send the first request of its iteration loop
AtFirstLoopRequest(t) == t.pc = "chat" /\ t.chats = 0

ApiReturn(op) ==
    /\ cron'.api.n = cron.api.n + 1
    /\ cron'.api.last.v.op = op

FromRunJob(calls) == SelectSeq(calls, LAMBDA c : c.by = "run_job")
FromLoop(calls) == SelectSeq(calls, LAMBDA c : c.by = "loop")

\* C32: run_job(id, force) on an unknown id, or on a disabled job without
\* force, returns false, invokes no callback and leaves every job as it is;
\* on an enabled job, or with force, it invokes the registered callback
\* exactly once (between its lookup and its update, for the id it was given),
\* returns true, and the job, unless it has left the store, then carries
\* last_run_at_ms = now and a last_status (ok, or error with last_error).
C32_RunJob ==
    [][/\ \A job_id \in CronIds, force \in BOOLEAN :
            LET job == FindJob(cron.jobs, job_id)
                begins == /\ cron.api.pc = "idle" /\ cron'.api.pc = "invoke"
                          /\ cron'.api.id = job_id /\ cron'.api.force = force
                stops == /\ cron.api.pc = "idle" /\ ApiReturn("run_job")
                         /\ cron'.api.last.v.id = job_id /\ cron'.api.last.v.flag = force
            IN /\ (begins \/ stops) => cron'.calls = cron.calls /\ cron'.jobs = cron.jobs
               /\ stops => /\ cron'.api.last.v.result = FALSE
                           /\ ~job.some \/ (~force /\ ~job.v.enabled)
               /\ begins => job.some /\ (force \/ job.v.enabled)
       /\ (cron.api.pc = "invoke" /\ cron'.api # cron.api) =>
             /\ cron'.api.pc = "await"
             /\ cron'.jobs = cron.jobs
             /\ cron'.calls = IF cron.on_job
                              THEN Append(cron.calls, [id |-> cron.api.id, by |-> "run_job",
                                                       revoked |-> cron.api.id \in cron.revoked])
                              ELSE cron.calls
       /\ (cron.api.pc = "await" /\ cron'.api # cron.api) =>
            LET after == FindJob(cron'.jobs, cron.api.id)
            IN /\ ApiReturn("run_job")
               /\ cron'.api.last.v.id = cron.api.id
               /\ cron'.api.last.v.result = TRUE
               /\ cron'.calls = cron.calls
               /\ after.some =>
                     /\ after.v.state.last_run_at_ms = Some(cron.now)
                     /\ after.v.state.last_status \in {Some("ok"), Some("error")}
                     /\ after.v.state.last_error.some <=>
                           after.v.state.last_status = Some("error")
               /\ \A i \in 1..Len(cron.jobs) :
                     cron.jobs[i].id # cron.api.id =>
                        \E k \in 1..Len(cron'.jobs) : cron'.jobs[k] = cron.jobs[i]
      ]_vars

\* run_job with force has returned true on the disabled repeating job, whose
\* callback failed: the job is in the store with the error and the time
C32_Witness ==
    /\ cron.api.last.some
    /\ cron.api.last.v.op = "run_job" /\ cron.api.last.v.id = "e"
    /\ cron.api.last.v.flag /\ cron.api.last.v.result = TRUE
    /\ Len(FromRunJob(cron.calls)) = 1
    /\ \E i \in 1..Len(cron.jobs) :
          /\ cron.jobs[i].id = "e" /\ ~cron.jobs[i].enabled
          /\ cron.jobs[i].state.last_status = Some("error")
          /\ cron.jobs[i].state.last_run_at_ms = Some(cron.now)

IsAt(job) == job.schedule.kind = "at"
TimesRan(id) == Len(SelectSeq(cron.ran, LAMBDA r : r = id))

\* C33: the scheduler loop runs a one-shot ('at') job at most once; when the
\* loop has run it, the job is gone from the store if delete_after_run is
\* set, and otherwise it is in the store, disabled and without a next run
\* time (unless it was removed during the run); and when run_job has run an
\* 'at' job with delete_after_run, the job is gone from the store.
C33_OneShotRunsOnce ==
    /\ [](\A id \in CronIds :
             (\E i \in 1..Len(cron.jobs) : cron.jobs[i].id = id /\ IsAt(cron.jobs[i])) =>
                 TimesRan(id) <= 1)
    /\ [][(cron.runner.pc = "await" /\ cron'.runner # cron.runner) =>
            LET job == cron.runner.job.v
                after == FindJob(cron'.jobs, job.id)
            IN IsAt(job) =>
                  IF job.delete_after_run THEN ~after.some
                  ELSE /\ after.some <=> FindJob(cron.jobs, job.id).some
                       /\ after.some =>
                             /\ ~after.v.enabled
                             /\ after.v.state.next_run_at_ms = Absent
                             /\ after.v.state.last_status.some]_vars
    /\ [][(/\ cron.api.pc = "await" /\ cron'.api # cron.api
            /\ IsAt(cron.api.job.v) /\ cron.api.job.v.delete_after_run) =>
                ~FindJob(cron'.jobs, cron.api.id).some]_vars

\* the loop has run the one-shot job, which is kept, disabled and without a
\* next run time, and the clock has passed its time since
C33_Witness ==
    /\ TimesRan("a") = 1
    /\ cron.runner.pc = "sleep"
    /\ cron.now > AtTime
    /\ \E i \in 1..Len(cron.jobs) :
          /\ cron.jobs[i].id = "a" /\ ~cron.jobs[i].enabled
          /\ cron.jobs[i].state.next_run_at_ms = Absent
          /\ cron.jobs[i].state.last_run_at_ms = Some(AtTime)

\* C39: once enable_job(id, false) or remove_job(id) has returned, the loop
\* does not invoke the callback for that job until enable_job(id, true): no
\* invocation by the loop was made for an id that was revoked at that moment.
C39_NoCallbackAfterDisable ==
    \A k \in 1..Len(cron.calls) :
        cron.calls[k].by = "loop" => ~cron.calls[k].revoked

\* the for loop looks every collected id up again, so a job removed before
\* its turn in the loop is skipped ...
LoopSkipsRemovedJobs ==
    [][(cron.runner.pc = "take" /\ cron'.runner.pc = "invoke") =>
          FindJob(cron.jobs, Head(cron.runner.due)).some]_vars

\* ... and it would be the same for a job disabled before its turn, if the
\* loop looked at the enabled flag again
LoopSkipsDisabledJobs ==
    [][(cron.runner.pc = "take" /\ cron'.runner.pc = "invoke") =>
          FindJob(cron.jobs, Head(cron.runner.due)).v.enabled]_vars

(***************************************************************************)
(* Properties of the dispatcher.                                           *)
(***************************************************************************)
\* the dispatcher's consume_outbound returns a message in this step
DispatcherConsumes ==
    /\ clients["disp"].pc = "recv" /\ clients'["disp"].pc = "idle"
    /\ outbound # <<>> /\ outbound' = Tail(outbound)

\* C34: every outbound message the dispatcher consumes is passed to send() of
\* the registered channel named by its channel field, once and to no other
\* channel, and a message for a channel that is not registered is passed to
\* none; nothing else calls send(). Hence every channel has received only
\* messages addressed to it, each once, in the order they were consumed
\* (which is the order they were published in), and the dispatcher is ready
\* for the next message after either kind.
C34_DispatchToNamedChannel ==
    /\ [][IF DispatcherConsumes
          THEN \A c \in DOMAIN channel_sent :
                  channel_sent'[c] = IF c = Head(outbound).channel
                                     THEN Append(channel_sent[c], Head(outbound))
                                     ELSE channel_sent[c]
          ELSE channel_sent' = channel_sent]_vars
    /\ [](\A c \in DOMAIN channel_sent :
            /\ \A i \in 1..Len(channel_sent[c]) : channel_sent[c][i].channel = c
            /\ \A i, j \in 1..Len(channel_sent[c]) :
                  i < j => channel_sent[c][i].content < channel_sent[c][j].content)
    /\ [](\A m \in 1..clients["pout"].n :
            \* the m-th message is in the queue, or it was consumed: then it is
            \* with the channel it names and nowhere else
            \/ \E i \in 1..Len(outbound) : outbound[i].content = m
            \/ Cardinality({c \in DOMAIN channel_sent :
                              \E i \in 1..Len(channel_sent[c]) :
                                 channel_sent[c][i].content = m}) <= 1)

\* three messages were published and consumed; the second named a channel
\* that is not registered, the first and the third are with the mock channel
C34_Witness ==
    /\ clients["pout"].n = 3 /\ outbound = <<>> /\ clients["pout"].pc = "idle"
    /\ Len(channel_sent[Mock]) = 2
    /\ channel_sent[Mock][1].content = 1 /\ channel_sent[Mock][2].content = 3
    /\ channel_sent[Mock2] = <<>>

(***************************************************************************)
(* The outbound depth counter in the running gateway.                      *)
(***************************************************************************)
\* the publish_outbound calls that have counted their message and await send
InFlightOutbound ==
    Cardinality({c \in {"pout", "hm"} :
                    clients[c].pc = "send" /\ "sender_id" \notin DOMAIN clients[c].msg.v})
    + (IF run.pc = "send" THEN 1 ELSE 0)

\* C35: outbound_size() never exceeds the number of outbound messages that
\* were published and are not yet consumed (those in the queue and those a
\* publish_outbound is about to enqueue): the counter is never decremented at
\* 0, which would wrap it to usize::MAX, also for the messages MessageTool
\* enqueues through the sender it got from outbound_sender().
C35_OutboundCounterNeverWraps ==
    outbound_size <= Len(outbound) + InFlightOutbound


\* C36: every OutboundMessage that run() publishes for a system message with
\* chat_id "C:I" is addressed to channel C and chat I, never to channel
\* "system", whether the turn returned or failed.
C36_SystemReplyToOrigin ==
    (/\ run.pc = "send"
     /\ run.msg.v.channel = <<"s", "y", "s", "t", "e", "m">>
     /\ \E k \in 1..Len(run.msg.v.chat_id) : run.msg.v.chat_id[k] = ":") =>
        /\ run.response.v.channel # <<"s", "y", "s", "t", "e", "m">>
        /\ SplitsAtFirstColon(run.msg.v.chat_id, run.response.v.channel,
                              run.response.v.chat_id)

\* the same for the turns that returned: the reply of a completed system
\* turn is addressed to the origin
CompletedSystemReplyToOrigin ==
    (/\ run.pc = "send" /\ ~run.failed
     /\ run.msg.v.channel = <<"s", "y", "s", "t", "e", "m">>
     /\ \E k \in 1..Len(run.msg.v.chat_id) : run.msg.v.chat_id[k] = ":") =>
        SplitsAtFirstColon(run.msg.v.chat_id, run.response.v.channel,
                           run.response.v.chat_id)


\* the session as saved under key holds the user record of the turn t
\* followed by its assistant record
HoldsPairOf(store, t) ==
    /\ t.session.key \in DOMAIN store
    /\ LET messages == store[t.session.key].messages
       IN \E i \in 1..(Len(messages) - 1) :
              /\ messages[i].timestamp = t.no /\ messages[i].role = "user"
              /\ messages[i + 1].timestamp = t.no /\ messages[i + 1].role = "assistant"

\* C37: the saved session holds the user/assistant pair of every turn that
\* completed, whatever other turn used the same session key meanwhile.
C37_NoTurnRecordsLost ==
    \A e \in Execs : Returned(turn[e]) => HoldsPairOf(cache, turn[e])

\* two turns are in progress on one session key
TurnsShareKey ==
    /\ InProgress("run") /\ InProgress("direct")
    /\ turn["run"].session.key = turn["direct"].session.key


\* the last call of the store's caller was save or delete for key
LastStoreCall(key) ==
    /\ clients["fn"].call.some
    /\ clients["fn"].call.v.args.op \in {"save", "delete"}
    /\ clients["fn"].call.v.args.key = key

\* C38: saving or deleting the session of a key k1 leaves what load returns
\* for every other key k2 as it was, also for keys that differ only by a
\* character that session_path replaces.
C38_KeysShareNoState ==
    \A k1 \in SessionKeys :
        LastStoreCall(k1) =>
            \A k2 \in SessionKeys \ {k1} :
                load(disk, k2) = clients["fn"].call.v.args.before[k2]

\* the same for the keys whose file names differ
KeysWithOtherFilesShareNoState ==
    \A k1 \in SessionKeys :
        LastStoreCall(k1) =>
            \A k2 \in SessionKeys :
                session_path(k2) # session_path(k1) =>
                    load(disk, k2) = clients["fn"].call.v.args.before[k2]


\* the store holds at most one entry per (channel, sender_id)
OneEntryPerSender ==
    \A i, j \in 1..Len(pairing.pending) :
        (/\ pairing.pending[i].channel = pairing.pending[j].channel
         /\ pairing.pending[i].sender_id = pairing.pending[j].sender_id) => i = j

\* the caller's last call was an issue_pairing that returned Ok
IssueReturned ==
    /\ pairing.last.some
    /\ pairing.last.v.op = "issue"
    /\ pairing.last.v.result.ok

\* what the last issue_pairing found and left for its sender; Counted(before,
\* after) is what a repeated request has to do to request_count
IssuedAsStated(Counted(_, _)) ==
    LET call == pairing.last.v
        was == FindPending(call.before, call.args.channel, call.args.sender_id)
        is == FindPending(pairing.pending, call.args.channel, call.args.sender_id)
    IN /\ is # 0
       /\ pairing.pending[is].code = call.result.v.code
       /\ IF was # 0
          THEN /\ ~call.result.v.is_new
               /\ call.result.v.code = call.before[was].code
               /\ Counted(call.before[was].request_count,
                          pairing.pending[is].request_count)
          ELSE /\ call.result.v.is_new
               /\ pairing.pending[is].request_count = 1

\* C40 as stated: after any sequence of issue_pairing, approve_pairing and
\* reject_pairing calls the store holds at most one entry per (channel,
\* sender_id); a repeated issue_pairing for a sender still pending returns the
\* same code with is_new = false and increases request_count by one; a first
\* request returns a new entry with request_count 1 and is_new = true.
C40_PairingStoreAsStated ==
    /\ OneEntryPerSender
    /\ IssueReturned => IssuedAsStated(LAMBDA before, after : after - before = 1)

\* C40, amended: the same, except that request_count is increased with
\* saturating_add, so a count of u32::MAX stays as it is.
C40_PairingStore ==
    /\ OneEntryPerSender
    /\ IssueReturned => IssuedAsStated(LAMBDA before, after : after = saturating_add(before))

\* a sender asked, and asked again while the request was pending
C40_Witness ==
    /\ IssueReturned
    /\ ~pairing.last.v.result.v.is_new
    /\ pairing.n >= 2
    /\ \E i \in 1..Len(pairing.pending) :
          /\ pairing.pending[i].sender_id = pairing.last.v.args.sender_id
          /\ pairing.pending[i].request_count = 2

====
